---- MODULE Spec2Model ----
(***************************************************************************)
(* Verification model of whisper-mowd.                                     *)
(*                                                                         *)
(* Part I  : the GDPR deletion handler (src/gdpr/deletion_handler.py) over *)
(*           versioned S3 buckets, the DynamoDB metadata table and the     *)
(*           DynamoDB audit table.  Specification: Spec.                   *)
(* Part II : the processing pipeline (src/cli.py process_file) over the    *)
(*           converter, the transcriber, the summarizers and the storage   *)
(*           backends.  Specification: PipeSpec.                           *)
(*                                                                         *)
(* Strings that the code matches by prefix or by glob are sequences of     *)
(* tokens, so that prefix and pattern matching are computed, not assumed.  *)
(***************************************************************************)
EXTENDS Integers, Sequences, FiniteSets, TLC

\* ------------------------------------------------------------------------
\* Bounds of the model
\* ------------------------------------------------------------------------
MaxTime == 1
MaxRequests == 2
MaxFaults == 1
MaxVersions == 2
MaxRuns == 2
MaxSegments == 2

None == "None"

\* ------------------------------------------------------------------------
\* Strings as token sequences
\* ------------------------------------------------------------------------
TokRank(t) ==
    CASE t = "*" -> 0
      [] t = "." -> 1
      [] t = "[" -> 2
      [] t = "]" -> 3
      [] t = "_with_timestamps" -> 4
      [] t = "a" -> 5
      [] t = "b" -> 6
      [] t = "c" -> 7
      [] t = "mp3" -> 8
      [] t = "mp4" -> 9
      [] t = "txt" -> 10
      [] t = "wav" -> 11
      [] OTHER -> 12

\* str.startswith / the Prefix= parameter of list_objects_v2
IsPrefix(p, s) ==
    /\ Len(p) <= Len(s)
    /\ \A i \in 1..Len(p) : p[i] = s[i]

\* str.endswith('.*')
EndsWithWildcard(p) ==
    /\ Len(p) >= 2
    /\ p[Len(p) - 1] = "."
    /\ p[Len(p)] = "*"

\* key_pattern[:-2]
StripLast2(p) == SubSeq(p, 1, Len(p) - 2)

\* byte order of keys, the order in which S3 lists them
RECURSIVE LexLess(_, _)
LexLess(s, t) ==
    IF s = <<>> THEN t # <<>>
    ELSE IF t = <<>> THEN FALSE
    ELSE IF Head(s) = Head(t) THEN LexLess(Tail(s), Tail(t))
    ELSE TokRank(Head(s)) < TokRank(Head(t))

RECURSIVE SortedSeq(_)
SortedSeq(S) ==
    IF S = {} THEN <<>>
    ELSE LET m == CHOOSE x \in S : \A y \in S \ {x} : LexLess(x, y)
         IN  <<m>> \o SortedSeq(S \ {m})

Range(f) == { f[i] : i \in DOMAIN f }

\* ------------------------------------------------------------------------
\* Part I.  Data of the deletion handler
\* ------------------------------------------------------------------------
Users == {"u1", "u2"}
Schools == {"s1", "s2"}
RequestIds == {"r1"}

\* lecture ids; <<"a">> is a proper prefix of <<"a","b">>
LectureIds == { <<"a">>, <<"a", "b">>, <<"b">>, <<"c">> }

\* the order in which the metadata table returns its items
ScanOrder == << <<"a">>, <<"b">>, <<"a", "b">>, <<"c">> >>

AudioExts == {"mp3", "wav"}

AUDIO_BUCKET == "audio-bucket"
TRANSCRIPT_BUCKET == "transcript-bucket"
SUMMARY_BUCKET == "summary-bucket"
Buckets == {AUDIO_BUCKET, TRANSCRIPT_BUCKET, SUMMARY_BUCKET}

\* object keys as the storage backends build them
AudioKey(id, ext) == <<"lectures/">> \o id \o <<".", ext>>
TranscriptKey(id) == <<"transcripts/">> \o id \o <<".", "txt">>
TimestampedKey(id) == <<"transcripts/">> \o id \o <<"_with_timestamps", ".", "txt">>
SummaryKey(id) == <<"summaries/">> \o id \o <<".", "txt">>

KeysOf(bucket) ==
    CASE bucket = AUDIO_BUCKET ->
            { AudioKey(id, e) : id \in LectureIds, e \in AudioExts }
      [] bucket = TRANSCRIPT_BUCKET ->
            { TranscriptKey(id) : id \in LectureIds }
              \cup { TimestampedKey(id) : id \in LectureIds }
      [] bucket = SUMMARY_BUCKET ->
            { SummaryKey(id) : id \in LectureIds }

\* an S3 key: is the latest version a live object, and how many object
\* versions (delete markers not counted) the bucket stores for it
Absent == [live |-> FALSE, versions |-> 0]
Stored(n) == [live |-> TRUE, versions |-> n]

VARIABLES
    now,          \* datetime.utcnow(), in seconds
    versioned,    \* is bucket versioning enabled
    s3,           \* s3[bucket][key] : object state
    metadata,     \* METADATA_TABLE : lecture_id -> item
    audit,        \* AUDIT_TABLE : audit_id -> item
    pc,           \* position of lambda_handler
    req,          \* parsed body of the event
    audit_id,     \* audit_entry['audit_id'] of the running request
    user_data,    \* result of find_user_data
    todo,         \* key patterns delete_user_data has still to visit
    cur,          \* the wildcard pattern whose listing is being deleted
    contents,     \* response['Contents'] still to delete for cur
    meta_todo,    \* lecture ids whose metadata is still to delete
    results,      \* the results dict of delete_user_data
    response,     \* what lambda_handler returned last
    nreq,         \* requests handled so far
    faults,       \* backend calls that have failed so far
    attempted,    \* history: keys delete_s3_object was called on, and
                  \*          lecture ids delete_item was called on
    removed,      \* history: objects / items this request made disappear
    failed,       \* history: deletion attempts of this request that raised
    faulted,      \* history: keys / patterns a backend call failed on
    prev          \* history: the previous finished request

delVars == <<now, versioned, s3, metadata, audit, pc, req, audit_id, user_data,
             todo, cur, contents, meta_todo, results, response, nreq, faults,
             attempted, removed, failed, faulted, prev>>

\* Part II state (declared here so that Part I can leave it unchanged)
VARIABLES
    clock,          \* datetime.now(), in seconds
    files,          \* paths that exist outside the storage directories
    audio_dir,      \* LocalStorage.audio_dir : file name -> path copied
    transcript_dir, \* LocalStorage.transcript_dir : file name -> text
    summary_dir,    \* LocalStorage.summary_dir : file name -> text
    metadata_dir,   \* LocalStorage.metadata_dir : file name -> dict
    cloud,          \* keys put by SecureAWSStorage, as <<bucket, key>>
    transcriber,    \* the global transcriber of cli.py: <<>> is None
    ppc,            \* position of process_file
    args,           \* arguments of the running process_file call
    lecture_id,     \* local lecture_id
    temp_files,     \* local temp_files
    audio_path,     \* local audio_path
    segments,       \* segments the model has still to yield
    segments_list,  \* local segments_list of transcribe
    transcription,  \* local transcription: <<>> before transcribe returns
    summary_text,   \* local summary_text: <<>> is None
    exc,            \* the exception propagating out of process_file
    outcome,        \* how the last process_file call ended
    nruns,          \* process_file calls started so far
    calls,          \* history: the stages this call has invoked, in order
    created,        \* history: temporary files this call has created
    summ_failed     \* history: the summarization step of this call failed

pipeVars == <<clock, files, audio_dir, transcript_dir, summary_dir,
              metadata_dir, cloud, transcriber, ppc, args, lecture_id,
              temp_files, audio_path, segments, segments_list, transcription,
              summary_text, exc, outcome, nruns, calls, created, summ_failed>>

\* Part III state (declared here so that Parts I and II can leave it unchanged)
VARIABLES
    utcnow,         \* datetime.utcnow(), in seconds
    objects,        \* S3 objects put by SecureAWSStorage: <<bucket, key>> -> body
    metadata_table, \* the DynamoDB table: lecture_id -> item
    audit_log,      \* the entries logger.audit_trail has written, in order
    ret,            \* how the last SecureAWSStorage call ended
    ncalls          \* SecureAWSStorage calls made so far

awsVars == <<utcnow, objects, metadata_table, audit_log, ret, ncalls>>

\* Part IV state: LocalStorage called directly
VARIABLES
    lret,           \* how the last LocalStorage call ended
    nlocal          \* LocalStorage calls made so far

locVars == <<lret, nlocal>>

\* Part V state: one WhisperTranscriber called directly
VARIABLES
    engine,         \* the instance: <<>> before it is constructed
    tpc,            \* position of transcribe: "idle" when no call runs
    t_audio_path,   \* audio_path of the call
    t_segments,     \* segments the model has still to yield
    t_segments_list,\* segments_list of the call
    t_result,       \* what the last call returned: <<>> if nothing
    t_error,        \* the exception the last call raised, or "none"
    loads,          \* history: the models constructed so far
    ntranscribe,    \* transcribe calls started so far
    cancel_during   \* history: cancel_transcription ran during this call

engVars == <<engine, tpc, t_audio_path, t_segments, t_segments_list,
             t_result, t_error, loads, ntranscribe, cancel_during>>

\* Part VI state: process_batch.py with worker threads
VARIABLES
    g_transcriber,  \* the global transcriber of cli.py: 0 is None, else the
                    \* instance the task of that number constructed
    wpc,            \* position of each task's process_file call
    engine_used,    \* history: the instance each task called transcribe on
    cancel_flags,   \* cancel_requested of each instance
    seg_left,       \* segments each task's transcribe has still to consume
    batch_exited,   \* sys.exit(1) was called
    nsigint         \* SIGINTs delivered so far

batVars == <<g_transcriber, wpc, engine_used, cancel_flags, seg_left,
             batch_exited, nsigint>>

\* Part VII state: a Lambda handler behind requires_role
VARIABLES
    auth_event,     \* the event of the last request
    auth_result,    \* the statusCode the wrapper returned for it
    handler_ran,    \* history: the handler body ran for the last request
    nauth           \* requests handled so far

authVars == <<auth_event, auth_result, handler_ran, nauth>>

\* the state of the parts that follow Part III
extVars == <<locVars, engVars, batVars, authVars>>

vars == <<delVars, pipeVars, awsVars, extVars>>

\* ------------------------------------------------------------------------
\* Part I.  Backend calls
\* ------------------------------------------------------------------------
METADATA_TABLE == "metadata-table"

\* s3.delete_object(Bucket, Key) without a VersionId: with versioning the
\* latest version becomes a delete marker, without it the object is gone
DeleteObjectCall(obj) ==
    IF versioned THEN [obj EXCEPT !.live = FALSE] ELSE Absent

\* the ways one call of delete_s3_object can end
DeleteModes == {"ok", "delete_object", "list_object_versions", "delete_version"}

\* delete_s3_object(bucket, key) on an object in state obj.  mode names the
\* backend call that raises (or "ok"), j the versions already deleted when
\* a versioned delete raises.  Returns the new object state and whether the
\* function returned normally.
delete_s3_object(obj, mode, j) ==
    IF mode = "delete_object"
    THEN [obj |-> obj, raised |-> TRUE]
    ELSE LET marked == DeleteObjectCall(obj)
         IN  CASE mode = "list_object_versions" ->
                    [obj |-> marked, raised |-> TRUE]
               [] mode = "delete_version" ->
                    [obj |-> [marked EXCEPT !.versions = marked.versions - j],
                     raised |-> TRUE]
               [] OTHER ->
                    [obj |-> [marked EXCEPT !.versions = 0], raised |-> FALSE]

\* which (mode, j) are possible for an object
ModePossible(obj, mode, j) ==
    /\ mode \in DeleteModes
    /\ mode # "ok" => faults < MaxFaults
    /\ IF mode = "delete_version"
       THEN j \in 0..(DeleteObjectCall(obj).versions - 1)
       ELSE j = 0

\* check_s3_object_exists: head_object; any exception is answered False
check_s3_object_exists(obj, headRaises) ==
    IF headRaises THEN FALSE ELSE obj.live

\* s3.list_objects_v2(Bucket, Prefix): the live keys with that prefix, in
\* key order
list_objects_v2(bucket, prefix) ==
    SortedSeq({ k \in KeysOf(bucket) : s3[bucket][k].live /\ IsPrefix(prefix, k) })

\* a delete_item that reports success and leaves the item
DeleteItemKeepsItem(table, id) == table

\* table.delete_item(Key={'lecture_id': id}); succeeds for a missing item too
DeleteItem(table, id) ==
    [ x \in (DOMAIN table) \ {id} |-> table[x] ]

\* the query / scan of find_user_data, in table order
MatchesRequest(item, uid, sid) ==
    /\ item.user_id = uid
    /\ sid # None => item.school_id = sid

RECURSIVE ScanFrom(_, _, _, _)
ScanFrom(order, table, uid, sid) ==
    IF order = <<>> THEN <<>>
    ELSE LET id == Head(order)
             rest == ScanFrom(Tail(order), table, uid, sid)
         IN  IF id \in DOMAIN table /\ MatchesRequest(table[id], uid, sid)
             THEN <<id>> \o rest
             ELSE rest

\* key patterns built by find_user_data
AudioPattern(id) == <<"lectures/">> \o id \o <<".", "*">>

RECURSIVE AudioPatterns(_)
AudioPatterns(ids) ==
    IF ids = <<>> THEN <<>>
    ELSE << <<AUDIO_BUCKET, "audio", AudioPattern(Head(ids))>> >>
            \o AudioPatterns(Tail(ids))

RECURSIVE TranscriptPatterns(_)
TranscriptPatterns(ids) ==
    IF ids = <<>> THEN <<>>
    ELSE << <<TRANSCRIPT_BUCKET, "transcripts", TranscriptKey(Head(ids))>>,
            <<TRANSCRIPT_BUCKET, "transcripts", TimestampedKey(Head(ids))>> >>
            \o TranscriptPatterns(Tail(ids))

RECURSIVE SummaryPatterns(_)
SummaryPatterns(ids) ==
    IF ids = <<>> THEN <<>>
    ELSE << <<SUMMARY_BUCKET, "summaries", SummaryKey(Head(ids))>> >>
            \o SummaryPatterns(Tail(ids))

find_user_data(table, uid, sid) ==
    LET ids == ScanFrom(ScanOrder, table, uid, sid)
    IN  [audio_files |-> AudioPatterns(ids),
         transcripts |-> TranscriptPatterns(ids),
         summaries |-> SummaryPatterns(ids),
         metadata_items |-> ids]

NoUserData ==
    [audio_files |-> <<>>, transcripts |-> <<>>, summaries |-> <<>>,
     metadata_items |-> <<>>]

ZeroSummary ==
    [total_audio_files |-> 0, total_transcripts |-> 0, total_summaries |-> 0,
     total_metadata |-> 0, total_errors |-> 0]

EmptyResults ==
    [audio_deleted |-> 0, transcripts_deleted |-> 0, summaries_deleted |-> 0,
     metadata_deleted |-> 0, errors |-> <<>>, summary |-> <<>>]   \* summary: <<>> or <<the dict>>

\* results[f'{data_type}_deleted'] += 1
Counted(res, data_type) ==
    CASE data_type = "audio" -> [res EXCEPT !.audio_deleted = @ + 1]
      [] data_type = "transcripts" -> [res EXCEPT !.transcripts_deleted = @ + 1]
      [] data_type = "summaries" -> [res EXCEPT !.summaries_deleted = @ + 1]

\* results['errors'].append(error_msg)
WithError(res, what, where) ==
    [res EXCEPT !.errors = Append(@, <<what, where>>)]

\* results['summary'] = {...}
MakeSummary(res) ==
    [total_audio_files |-> res.audio_deleted,
     total_transcripts |-> res.transcripts_deleted,
     total_summaries |-> res.summaries_deleted,
     total_metadata |-> res.metadata_deleted,
     total_errors |-> Len(res.errors)]

\* a finalization that ignores the error list
FinalStatusIgnoringErrors(errors) == "completed"

\* ':status' of update_audit_log
FinalStatus(errors) ==
    IF errors = <<>> THEN "completed" ELSE "completed_with_errors"

\* audit_id = f"GDPR-{request_id}-{utcnow:%Y%m%d%H%M%S}"
MakeAuditId(request_id, t) == <<"GDPR", request_id, t>>

NoAuditId == <<"GDPR", None, 0>>

\* the item create_audit_log puts
NewAuditEntry(aid, r, t) ==
    [audit_id |-> aid, request_id |-> r.request_id, user_id |-> r.user_id,
     school_id |-> r.school_id, request_time |-> t, status |-> "in_progress",
     results |-> <<>>]

\* table.put_item(Item=item): unconditional, replaces an item with that key
PutItem(table, key, item) ==
    [ x \in (DOMAIN table) \cup {key} |-> IF x = key THEN item ELSE table[x] ]

\* table.update_item(Key, SET status, completion_time, results): sets the
\* attributes of the item, creating it when there is none
UpdateAuditItem(table, aid, status, summary) ==
    IF aid \in DOMAIN table
    THEN [table EXCEPT ![aid].status = status, ![aid].results = <<summary>>]
    ELSE PutItem(table, aid,
                 [audit_id |-> aid, request_id |-> None, user_id |-> None,
                  school_id |-> None, request_time |-> 0, status |-> status,
                  results |-> <<summary>>])

\* the bodies of the events the handler is invoked with
Events ==
    { [user_id |-> "u1", school_id |-> None, request_id |-> "r1"],
      [user_id |-> "u1", school_id |-> "s1", request_id |-> "r1"],
      [user_id |-> "u2", school_id |-> None, request_id |-> "r1"],
      [user_id |-> None, school_id |-> None, request_id |-> "r1"],
      [user_id |-> "u1", school_id |-> None, request_id |-> None] }

\* the 'status' field of the 200 response
ResponseStatus(res) == "completed"

NoResponse ==
    [statusCode |-> 0, status |-> None, deleted_items |-> ZeroSummary,
     audit_id |-> NoAuditId]

ErrorResponse(code) ==
    [statusCode |-> code, status |-> None, deleted_items |-> ZeroSummary,
     audit_id |-> NoAuditId]

NoRequest == [user_id |-> None, school_id |-> None, request_id |-> None]

NoPrev == [req |-> NoRequest, response |-> NoResponse, errors |-> <<>>]

ZeroRemoved == [audio |-> 0, transcripts |-> 0, summaries |-> 0, metadata |-> 0]

\* history: an object that was retrievable and of which nothing is left
Gone(before, after) ==
    before.live /\ ~after.live /\ after.versions = 0

RemovedMore(rem, data_type, before, after) ==
    IF ~Gone(before, after) THEN rem
    ELSE CASE data_type = "audio" -> [rem EXCEPT !.audio = @ + 1]
           [] data_type = "transcripts" -> [rem EXCEPT !.transcripts = @ + 1]
           [] data_type = "summaries" -> [rem EXCEPT !.summaries = @ + 1]
\* ------------------------------------------------------------------------
\* Part I.  Initial stores
\* ------------------------------------------------------------------------
\* who owns which lecture, as save_metadata recorded it from user_context
OwnerOf(id) ==
    CASE id = <<"a">> -> [user_id |-> "u1", school_id |-> "s1"]
      [] id = <<"b">> -> [user_id |-> "u1", school_id |-> "s1"]
      [] id = <<"c">> -> [user_id |-> "u1", school_id |-> "s2"]
      [] OTHER -> [user_id |-> "u2", school_id |-> "s1"]

\* the stores after the lectures in present were processed and stored:
\* lecture a was stored from an mp3 and, if twice, again from a wav (its
\* transcript then has as many versions as the bucket keeps); the lectures
\* in nosummary were processed without a summarizer
InitialS3(present, twice, nosummary, vers) ==
    [ b \in Buckets |->
        [ k \in KeysOf(b) |->
            IF \E id \in present :
                 \/ k = AudioKey(id, "mp3")
                 \/ k = TimestampedKey(id)
                 \/ (k = SummaryKey(id) /\ id \notin nosummary)
                 \/ (k = TranscriptKey(id) /\ ~(twice /\ id = <<"a">>))
            THEN Stored(1)
            ELSE IF twice /\ <<"a">> \in present /\ k = AudioKey(<<"a">>, "wav")
            THEN Stored(1)
            ELSE IF twice /\ <<"a">> \in present /\ k = TranscriptKey(<<"a">>)
            THEN Stored(vers)
            ELSE Absent ] ]

DelInitWith(v, present, twice, nosummary) ==
    /\ now = 0
    /\ versioned = v
    /\ metadata = [ id \in present |-> OwnerOf(id) ]
    /\ s3 = InitialS3(present, twice, nosummary, IF v THEN MaxVersions ELSE 1)
    /\ audit = [ x \in {} |-> NewAuditEntry(NoAuditId, NoRequest, 0) ]
    /\ pc = "idle"
    /\ req = NoRequest
    /\ audit_id = NoAuditId
    /\ user_data = NoUserData
    /\ todo = <<>>
    /\ cur = <<>>
    /\ contents = <<>>
    /\ meta_todo = <<>>
    /\ results = EmptyResults
    /\ response = NoResponse
    /\ nreq = 0
    /\ faults = 0
    /\ attempted = {}
    /\ removed = ZeroRemoved
    /\ failed = 0
    /\ faulted = {}
    /\ prev = NoPrev

DelInit ==
    \E v \in BOOLEAN, twice \in BOOLEAN :
        DelInitWith(v, LectureIds, twice, {<<"b">>})
\* ------------------------------------------------------------------------
\* Part I.  lambda_handler, one action per step
\* ------------------------------------------------------------------------
\* the clock advances.  utcnow() is read only by create_audit_log, at the
\* start of a request, so the seconds that pass during a request are
\* taken after it
Tick ==
    /\ pc = "idle"
    /\ now < MaxTime
    /\ now' = now + 1
    /\ UNCHANGED <<versioned, s3, metadata, audit, pc, req, audit_id, user_data,
                   todo, cur, contents, meta_todo, results, response, nreq,
                   faults, attempted, removed, failed, faulted, prev>>
    /\ UNCHANGED <<pipeVars, awsVars, extVars>>

\* lines 40-55: parse the event and validate it
lambda_handler_parse ==
    /\ pc = "idle"
    /\ nreq < MaxRequests
    /\ \E e \in Events :
         /\ req' = e
         /\ IF e.user_id = None \/ e.request_id = None
            THEN /\ response' = ErrorResponse(400)
                 /\ pc' = "idle"
                 /\ nreq' = nreq + 1
            ELSE /\ response' = NoResponse
                 /\ pc' = "create_audit"
                 /\ nreq' = nreq
    /\ prev' = IF response.statusCode = 200
               THEN [req |-> req, response |-> response, errors |-> results.errors]
               ELSE prev
    /\ audit_id' = NoAuditId
    /\ user_data' = NoUserData
    /\ results' = EmptyResults
    /\ attempted' = {}
    /\ removed' = ZeroRemoved
    /\ failed' = 0
    /\ faulted' = {}
    /\ UNCHANGED <<now, versioned, s3, metadata, audit, todo, cur, contents,
                   meta_todo, faults>>
    /\ UNCHANGED <<pipeVars, awsVars, extVars>>

\* lines 58, 277-311: put the audit entry; a failing put_item is re-raised
\* and lambda_handler answers 500
create_audit_log ==
    /\ pc = "create_audit"
    /\ \E raises \in BOOLEAN :
         /\ raises => faults < MaxFaults
         /\ IF raises
            THEN /\ faults' = faults + 1
                 /\ response' = ErrorResponse(500)
                 /\ pc' = "idle"
                 /\ nreq' = nreq + 1
                 /\ UNCHANGED <<audit, audit_id>>
            ELSE /\ audit_id' = MakeAuditId(req.request_id, now)
                 /\ audit' = PutItem(audit, audit_id',
                                     NewAuditEntry(audit_id', req, now))
                 /\ pc' = "find"
                 /\ UNCHANGED <<faults, response, nreq>>
    /\ UNCHANGED <<now, versioned, s3, metadata, req, user_data, todo, cur,
                   contents, meta_todo, results, attempted, removed, failed,
                   faulted, prev>>
    /\ UNCHANGED <<pipeVars, awsVars, extVars>>

\* lines 61, 91-150: resolve the lectures of the user; a failing query is
\* re-raised and lambda_handler answers 500
find_user_data_step ==
    /\ pc = "find"
    /\ \E raises \in BOOLEAN :
         /\ raises => faults < MaxFaults
         /\ IF raises
            THEN /\ faults' = faults + 1
                 /\ response' = ErrorResponse(500)
                 /\ pc' = "idle"
                 /\ nreq' = nreq + 1
                 /\ UNCHANGED user_data
            ELSE /\ user_data' = find_user_data(metadata, req.user_id, req.school_id)
                 /\ pc' = "delete_begin"
                 /\ UNCHANGED <<faults, response, nreq>>
    /\ UNCHANGED <<now, versioned, s3, metadata, audit, req, audit_id, todo, cur,
                   contents, meta_todo, results, attempted, removed, failed,
                   faulted, prev>>
    /\ UNCHANGED <<pipeVars, awsVars, extVars>>

\* lines 162-176: delete_user_data starts: empty results, the loops are set up
delete_user_data_begin ==
    /\ pc = "delete_begin"
    /\ results' = EmptyResults
    /\ todo' = user_data.audio_files \o user_data.transcripts \o user_data.summaries
    /\ cur' = <<>>
    /\ contents' = <<>>
    /\ meta_todo' = user_data.metadata_items
    /\ pc' = "delete"
    /\ UNCHANGED <<now, versioned, s3, metadata, audit, req, audit_id, user_data,
                   response, nreq, faults, attempted, removed, failed, faulted,
                   prev>>
    /\ UNCHANGED <<pipeVars, awsVars, extVars>>
\* one call delete_s3_object(bucket, key) made for key pattern pat, ending in
\* the way (mode, j), and what lines 189-190 / 194-195 / 197-200 do with it
CallDeleteS3Object(bucket, data_type, pat, key, mode, j) ==
    LET before == s3[bucket][key]
        out == delete_s3_object(before, mode, j)
    IN  /\ ModePossible(before, mode, j)
        /\ s3' = [s3 EXCEPT ![bucket][key] = out.obj]
        /\ attempted' = attempted \cup {<<bucket, key>>}
        /\ removed' = RemovedMore(removed, data_type, before, out.obj)
        /\ IF out.raised
           THEN /\ results' = WithError(results, pat, bucket)
                /\ failed' = failed + 1
                /\ faulted' = faulted \cup {<<bucket, key>>}
                /\ faults' = faults + 1
           ELSE /\ results' = Counted(results, data_type)
                /\ UNCHANGED <<failed, faulted, faults>>

\* lines 177-187 and 191-200: the next key pattern.  A wildcard pattern is
\* listed by prefix; a direct key is deleted if head_object finds it.
delete_next_pattern ==
    /\ pc = "delete"
    /\ contents = <<>>
    /\ todo # <<>>
    /\ LET bucket == Head(todo)[1]
           data_type == Head(todo)[2]
           pat == Head(todo)[3]
       IN  IF EndsWithWildcard(pat)
           THEN \E raises \in BOOLEAN :
                  /\ raises => faults < MaxFaults
                  /\ IF raises
                     THEN /\ results' = WithError(results, pat, bucket)
                          /\ failed' = failed + 1
                          /\ faulted' = faulted \cup {<<bucket, pat>>}
                          /\ faults' = faults + 1
                          /\ UNCHANGED <<cur, contents>>
                     ELSE /\ contents' = list_objects_v2(bucket, StripLast2(pat))
                          /\ cur' = Head(todo)
                          /\ UNCHANGED <<results, failed, faulted, faults>>
                  /\ UNCHANGED <<s3, attempted, removed>>
           ELSE \E headRaises \in BOOLEAN :
                  /\ headRaises => faults < MaxFaults
                  /\ IF check_s3_object_exists(s3[bucket][pat], headRaises)
                     THEN \E mode \in DeleteModes, j \in 0..MaxVersions :
                            CallDeleteS3Object(bucket, data_type, pat, pat, mode, j)
                     ELSE /\ faults' = IF headRaises THEN faults + 1 ELSE faults
                          /\ faulted' = IF headRaises
                                        THEN faulted \cup {<<bucket, pat>>}
                                        ELSE faulted
                          /\ UNCHANGED <<s3, attempted, removed, results, failed>>
                  /\ UNCHANGED <<cur, contents>>
    /\ todo' = Tail(todo)
    /\ UNCHANGED <<now, versioned, metadata, audit, pc, req, audit_id, user_data,
                   meta_todo, response, nreq, prev>>
    /\ UNCHANGED <<pipeVars, awsVars, extVars>>

\* lines 188-190 and 197-200: the next listed object of a wildcard pattern;
\* an exception leaves the listing and is recorded once for the pattern
delete_listed_object ==
    /\ pc = "delete"
    /\ contents # <<>>
    /\ \E mode \in DeleteModes, j \in 0..MaxVersions :
         /\ CallDeleteS3Object(cur[1], cur[2], cur[3], Head(contents), mode, j)
         /\ contents' = IF mode = "ok" THEN Tail(contents) ELSE <<>>
    /\ UNCHANGED <<now, versioned, metadata, audit, pc, req, audit_id, user_data,
                   todo, cur, meta_todo, response, nreq, prev>>
    /\ UNCHANGED <<pipeVars, awsVars, extVars>>

\* lines 203-213: delete the next metadata item
delete_metadata_item ==
    /\ pc = "delete"
    /\ contents = <<>>
    /\ todo = <<>>
    /\ meta_todo # <<>>
    /\ LET lid == Head(meta_todo)
       IN  \E raises \in BOOLEAN :
             /\ raises => faults < MaxFaults
             /\ attempted' = attempted \cup {<<METADATA_TABLE, lid>>}
             /\ IF raises
                THEN /\ results' = WithError(results, lid, METADATA_TABLE)
                     /\ failed' = failed + 1
                     /\ faulted' = faulted \cup {<<METADATA_TABLE, lid>>}
                     /\ faults' = faults + 1
                     /\ UNCHANGED <<metadata, removed>>
                ELSE /\ metadata' = DeleteItem(metadata, lid)
                     /\ results' = [results EXCEPT !.metadata_deleted = @ + 1]
                     /\ removed' = IF lid \in DOMAIN metadata
                                   THEN [removed EXCEPT !.metadata = @ + 1]
                                   ELSE removed
                     /\ UNCHANGED <<failed, faulted, faults>>
    /\ meta_todo' = Tail(meta_todo)
    /\ UNCHANGED <<now, versioned, s3, audit, pc, req, audit_id, user_data, todo,
                   cur, contents, response, nreq, prev>>
    /\ UNCHANGED <<pipeVars, awsVars, extVars>>

\* lines 215-224: delete_user_data builds the summary and returns
delete_user_data_end ==
    /\ pc = "delete"
    /\ contents = <<>>
    /\ todo = <<>>
    /\ meta_todo = <<>>
    /\ results' = [results EXCEPT !.summary = <<MakeSummary(results)>>]
    /\ pc' = "update_audit"
    /\ UNCHANGED <<now, versioned, s3, metadata, audit, req, audit_id, user_data,
                   todo, cur, contents, meta_todo, response, nreq, faults,
                   attempted, removed, failed, faulted, prev>>
    /\ UNCHANGED <<pipeVars, awsVars, extVars>>

\* lines 67, 313-337: finalize the audit entry; an exception is only logged
update_audit_log ==
    /\ pc = "update_audit"
    /\ \E raises \in BOOLEAN :
         /\ raises => faults < MaxFaults
         /\ IF raises
            THEN /\ faults' = faults + 1
                 /\ UNCHANGED audit
            ELSE /\ audit' = UpdateAuditItem(audit, audit_id,
                                             FinalStatus(results.errors),
                                             results.summary[1])
                 /\ UNCHANGED faults
    /\ pc' = "confirm"
    /\ UNCHANGED <<now, versioned, s3, metadata, req, audit_id, user_data, todo,
                   cur, contents, meta_todo, results, response, nreq, attempted,
                   removed, failed, faulted, prev>>
    /\ UNCHANGED <<pipeVars, awsVars, extVars>>

\* lines 69-80, 339-374: the confirmation is logged (a failing CloudTrail
\* call is only logged) and the 200 response is returned
lambda_handler_return ==
    /\ pc = "confirm"
    /\ response' = [statusCode |-> 200,
                    status |-> ResponseStatus(results),
                    deleted_items |-> results.summary[1],
                    audit_id |-> audit_id]
    /\ pc' = "idle"
    /\ nreq' = nreq + 1
    /\ UNCHANGED <<now, versioned, s3, metadata, audit, req, audit_id, user_data,
                   todo, cur, contents, meta_todo, results, faults, attempted,
                   removed, failed, faulted, prev>>
    /\ UNCHANGED <<pipeVars, awsVars, extVars>>

DelNext ==
    \/ Tick
    \/ lambda_handler_parse
    \/ create_audit_log
    \/ find_user_data_step
    \/ delete_user_data_begin
    \/ delete_next_pattern
    \/ delete_listed_object
    \/ delete_metadata_item
    \/ delete_user_data_end
    \/ update_audit_log
    \/ lambda_handler_return

\* type correctness of the deletion handler's state
DelTypeOK ==
    /\ now \in 0..MaxTime
    /\ pc \in {"idle", "create_audit", "find", "delete_begin", "delete",
               "update_audit", "confirm"}
    /\ faults \in 0..MaxFaults
    /\ nreq \in 0..MaxRequests
\* ------------------------------------------------------------------------
\* Part I.  Properties of the deletion handler
\* ------------------------------------------------------------------------
\* lambda_handler has returned 200; req, user_data, results and the history
\* variables are those of the request it answered
Finished == pc = "idle" /\ response.statusCode = 200

\* the lecture ids find_user_data resolved
Resolved == Range(user_data.metadata_items)

\* every place an artifact of lecture id can be stored at
ArtifactKeys(id) ==
    { <<AUDIO_BUCKET, AudioKey(id, e)>> : e \in AudioExts }
      \cup { <<TRANSCRIPT_BUCKET, TranscriptKey(id)>>,
             <<TRANSCRIPT_BUCKET, TimestampedKey(id)>>,
             <<SUMMARY_BUCKET, SummaryKey(id)>> }

ObjectAt(bk) == s3[bk[1]][bk[2]]

Remains(bk) == ObjectAt(bk).live \/ ObjectAt(bk).versions > 0

\* a backend call failed on this very key, or on the listing that had to
\* find it
FailedOn(bk) ==
    \/ bk \in faulted
    \/ \E f \in faulted : /\ f[1] = bk[1]
                          /\ EndsWithWildcard(f[2])
                          /\ IsPrefix(StripLast2(f[2]), bk[2])

FinalStatuses == {"completed", "completed_with_errors"}

\* C1: after a request that finished with an empty error list, nothing of
\* any resolved lecture remains: no audio object under any extension, no
\* transcript, no timestamped transcript, no summary, no version of any of
\* them, and no metadata record.
C1_NothingRemains ==
    (Finished /\ results.errors = <<>>) =>
        \A id \in Resolved :
            /\ id \notin DOMAIN metadata
            /\ \A bk \in ArtifactKeys(id) : ~Remains(bk)

\* C2: a failure on one artifact does not stop the run: when the handler
\* has returned, every resolved artifact that is still stored was attempted,
\* unless the failure was on that artifact itself; the delete of every
\* resolved metadata record was attempted; and a 500 is never the answer
\* once deletion has begun.
C2_EveryOtherAttempted ==
    /\ Finished =>
         \A id \in Resolved :
            /\ <<METADATA_TABLE, id>> \in attempted
            /\ \A bk \in ArtifactKeys(id) :
                 ObjectAt(bk).live => (bk \in attempted \/ FailedOn(bk))
    /\ (pc = "idle" /\ response.statusCode = 500) => attempted = {}

\* C3: the aggregated result is exact: each per-kind count is the number of
\* artifacts of that kind this request removed, the metadata count is the
\* number of records it removed, and the error list has one entry per
\* deletion attempt that failed.
C3_ExactCounts ==
    Finished =>
        /\ results.audio_deleted = removed.audio
        /\ results.transcripts_deleted = removed.transcripts
        /\ results.summaries_deleted = removed.summaries
        /\ results.metadata_deleted = removed.metadata
        /\ Len(results.errors) = failed

\* C4: while an accepted request resolves and deletes, its audit entry
\* exists with status in_progress (so it was written before the first
\* attempt and is not finalized before the last); once finalized it carries
\* completed for an empty error list and completed_with_errors otherwise,
\* with the aggregated counts.
C4_AuditOrder ==
    /\ pc \in {"find", "delete_begin", "delete", "update_audit"} =>
         /\ audit_id \in DOMAIN audit
         /\ audit[audit_id].status = "in_progress"
    /\ (attempted # {}) => audit_id \in DOMAIN audit
    /\ ((pc = "confirm" \/ Finished) /\ audit[audit_id].status # "in_progress") =>
         /\ audit[audit_id].status =
               IF results.errors = <<>> THEN "completed"
                                        ELSE "completed_with_errors"
         /\ audit[audit_id].results = <<MakeSummary(results)>>

\* a request with failed deletions has returned and its entry is finalized
C4_Witness ==
    /\ Finished
    /\ attempted # {}
    /\ results.errors # <<>>
    /\ audit[audit_id].status = "completed_with_errors"

\* C5: the status returned to the caller equals the final status of the
\* audit entry of the request.
C5_ReturnedStatus ==
    (Finished /\ audit[audit_id].status \in FinalStatuses) =>
        response.status = audit[audit_id].status

\* the same request (subject, scope, request_id) has been answered before,
\* and that run finished without errors
Repeat ==
    /\ Finished
    /\ prev.response.statusCode = 200
    /\ prev.req = req
    /\ prev.errors = <<>>

C7_FinalIsImmutable ==
    [][ \A aid \in DOMAIN audit :
          audit[aid].status \in FinalStatuses =>
             (aid \in DOMAIN audit' /\ audit'[aid] = audit[aid]) ]_vars

\* ------------------------------------------------------------------------
\* Part II.  Paths, names and patterns
\* ------------------------------------------------------------------------
\* a path is <<directory>> \o name; Path.name
Name(path) == Tail(path)

\* str.rfind('.') on a name, 0 if there is no dot
LastDot(name) ==
    LET dots == { i \in 1..Len(name) : name[i] = "." }
    IN  IF dots = {} THEN 0 ELSE CHOOSE i \in dots : \A j \in dots : j <= i

\* Path.suffix: from the last dot, unless that dot leads or ends the name
Suffix(path) ==
    LET name == Name(path)
        i == LastDot(name)
    IN  IF 1 < i /\ i < Len(name) THEN SubSeq(name, i, Len(name)) ELSE <<>>

\* Path.stem
Stem(path) ==
    LET name == Name(path)
        i == LastDot(name)
    IN  IF 1 < i /\ i < Len(name) THEN SubSeq(name, 1, i - 1) ELSE name

\* tokens that stand for more than one character
LongTokens == {"mp3", "mp4", "wav", "txt", "json", "_with_timestamps"}

\* fnmatch.translate, at a "[": the index of the "]" that closes the
\* character class, 0 if none does (the "[" is then a literal)
ClassEnd(p) ==
    LET start == IF Len(p) >= 2 /\ p[2] = "!" THEN 3 ELSE 2
        first == IF Len(p) >= start /\ p[start] = "]" THEN start + 1 ELSE start
        ends == { j \in first..Len(p) : p[j] = "]" }
    IN  IF ends = {} THEN 0 ELSE CHOOSE j \in ends : \A k \in ends : j <= k

\* does the character class p[1..j] match the token c
ClassMatches(p, j, c) ==
    LET negated == p[2] = "!"
        members == { p[k] : k \in (IF negated THEN 3 ELSE 2)..(j - 1) }
    IN  /\ c \notin LongTokens
        /\ (c \in members) # negated

\* fnmatch: does the whole of name match the pattern
RECURSIVE GlobMatch(_, _)
GlobMatch(p, name) ==
    IF p = <<>> THEN name = <<>>
    ELSE IF Head(p) = "*" THEN
        \E k \in 0..Len(name) : GlobMatch(Tail(p), SubSeq(name, k + 1, Len(name)))
    ELSE IF name = <<>> THEN FALSE
    ELSE IF Head(p) = "?" THEN
        Head(name) \notin LongTokens /\ GlobMatch(Tail(p), Tail(name))
    ELSE IF Head(p) = "[" /\ ClassEnd(p) # 0 THEN
        /\ ClassMatches(p, ClassEnd(p), Head(name))
        /\ GlobMatch(SubSeq(p, ClassEnd(p) + 1, Len(p)), Tail(name))
    ELSE Head(name) = Head(p) /\ GlobMatch(Tail(p), Tail(name))

\* ------------------------------------------------------------------------
\* Part II.  Inputs of process_file
\* ------------------------------------------------------------------------
VIDEO_EXTENSIONS == { <<".", e>> : e \in {"mp4", "mkv", "avi", "mov", "flv", "webm"} }
UNCOMMON_AUDIO == { <<".", e>> : e \in {"m4a", "aac", "wma", "ogg", "flac"} }

\* the files the user has: a video, an audio file, an audio file whose
\* name holds brackets, a recording of silence (the model yields no
\* segment) and a recording for which the model yields one segment with
\* empty text
VideoA == <<"in/", "a", ".", "mp4">>
AudioA == <<"in/", "a", ".", "mp3">>
AudioBracket == <<"in/", "[", "a", "]", ".", "mp3">>
Silent == <<"in/", "s", ".", "wav">>
Blank == <<"in/", "e", ".", "mp3">>
Missing == <<"in/", "b", ".", "mp3">>
InputPaths == {VideoA, AudioA, AudioBracket, Silent, Blank}

\* process_file(file_path, summarizer_type, storage_mode, lecture_id,
\* convert_format); lecture_id <<>> is None; output_dir is None
Call(f, summ, mode, id, fmt) ==
    [file_path |-> f, summarizer_type |-> summ, storage_mode |-> mode,
     lecture_id |-> id, convert_format |-> fmt]

Invocations ==
    { Call(VideoA, "openai", "local", <<>>, "mp3"),
      Call(VideoA, "custom_llm", "local", <<>>, "wav"),
      Call(VideoA, "none", "aws", <<>>, "mp3"),
      Call(VideoA, "none", "local", << <<"x">> >>, "flac"),
      Call(AudioA, "none", "local", <<>>, "mp3"),
      Call(AudioBracket, "openai", "local", <<>>, "mp3"),
      Call(Silent, "openai", "local", << <<"x">> >>, "mp3"),
      Call(Blank, "openai", "local", <<>>, "mp3"),
      Call(Missing, "none", "local", <<>>, "mp3") }

NoArgs == Call(<<>>, "none", "local", <<>>, "mp3")

\* AudioFileConverter.needs_conversion
needs_conversion(file_path) ==
    Suffix(file_path) \in VIDEO_EXTENSIONS \cup UNCOMMON_AUDIO

\* the name NamedTemporaryFile gives the output of the n-th call
TempPath(n, output_format) == <<"tmp/", ToString(n), ".", output_format>>

\* lines 130-132 of process_file
MakeLectureId(given, t, file_path) ==
    IF given = <<>> THEN <<ToString(t), "_">> \o Stem(file_path) ELSE given[1]

\* what the Whisper model hears in a file: its segments' texts
SegmentsOf(file_path) ==
    IF file_path = Silent THEN <<>>
    ELSE IF file_path = Blank THEN << <<>> >>
    ELSE [ i \in 1..MaxSegments |-> <<"w">> ]

\* " ".join(texts)
RECURSIVE Join(_)
Join(texts) ==
    IF texts = <<>> THEN <<>>
    ELSE IF Len(texts) = 1 THEN texts[1]
    ELSE texts[1] \o <<" ">> \o Join(Tail(texts))

\* lines 161-173 of transcribe: the result dict
MakeResult(segs) ==
    [type |-> "dict", text |-> Join(segs), segments |-> segs, language |-> "en"]

\* WhisperTranscriber.__init__
NewTranscriber == [cancel_requested |-> FALSE, model_loaded |-> FALSE]

\* ------------------------------------------------------------------------
\* Part II.  Storage backends and summarizers
\* ------------------------------------------------------------------------
EmptyDir == [ n \in {} |-> <<>> ]

\* open(path, 'w') and write: create the file or replace its content
Put(dir, name, content) ==
    [ n \in DOMAIN dir \cup {name} |-> IF n = name THEN content ELSE dir[n] ]

\* the file names LocalStorage builds
AudioName(id, file_path) == id \o Suffix(file_path)
TranscriptName(id) == id \o <<".", "txt">>
TimestampedName(id) == id \o <<"_with_timestamps", ".", "txt">>
SummaryName(id) == id \o <<".", "txt">>
MetadataName(id) == id \o <<".", "json">>

\* LocalStorage.get_audio_path: the values it can return, <<>> being None.
\* The directory is iterated in no particular order and the first match
\* is returned
get_audio_path(dir, id) ==
    LET found == { n \in DOMAIN dir : GlobMatch(id \o <<".", "*">>, n) }
    IN  IF found = {} THEN { <<>> } ELSE { <<n>> : n \in found }

\* the lines save_transcript_with_timestamps writes
RECURSIVE FormatSegments(_)
FormatSegments(segs) ==
    IF segs = <<>> THEN <<>>
    ELSE <<"[start --> end]">> \o Head(segs) \o <<"<nl>">>
            \o FormatSegments(Tail(segs))

\* Python truth of an optional string: neither None nor empty
Truthy(opt) == opt # <<>> /\ opt[1] # <<>>

\* what the chat completion call does
APIOutcomes == {"raises", "empty", "text"}

\* OpenAISummarizer.summarize
openai_summarize(transcription_result, api) ==
    LET segs == transcription_result.segments
        formatted == IF segs = <<>> THEN transcription_result.text
                     ELSE FormatSegments(SelectSeq(segs, LAMBDA t : t # <<>>))
    IN  IF segs = <<>> /\ transcription_result.text = <<>>
        THEN << <<"[Error: No transcript content available for summarization]">> >>
        ELSE IF formatted = <<>>
        THEN << <<"[Error: Transcript content was empty after formatting]">> >>
        ELSE CASE api = "raises" -> <<>>
               [] api = "empty" -> << <<>> >>
               [] api = "text" -> << <<"summary">> >>

\* str.split(): the words of a text
Words(text) == SelectSeq(text, LAMBDA t : t # " ")

\* BaseSummarizer.preprocess_transcript: transcript_text.split() exists
\* for a str only
preprocess_transcript(transcript_text) ==
    IF transcript_text.type # "str"
    THEN [raised |-> TRUE, text |-> <<>>]
    ELSE [raised |-> FALSE,
          text |-> Join([ i \in 1..Len(Words(transcript_text.text)) |->
                            <<Words(transcript_text.text)[i]>> ])]

\* CustomLLMSummarizer.summarize with the placeholder implementation;
\* preprocess_transcript is called before the try block
custom_llm_summarize(transcript_text) ==
    LET pre == preprocess_transcript(transcript_text)
    IN  IF pre.raised THEN [raised |-> TRUE, value |-> <<>>]
        ELSE [raised |-> FALSE,
              value |-> << <<"# Lecture Summary", "* ">> \o
                            (IF pre.text = <<>>
                             THEN <<"No summary could be generated.">>
                             ELSE pre.text) >>]

\* get_summarizer
get_summarizer(summarizer_type) ==
    IF summarizer_type \in {"openai", "custom_llm"} THEN summarizer_type
    ELSE "none"

\* get_name of the summarizer
get_name(summarizer) ==
    CASE summarizer = "openai" -> "OpenAI (gpt-3.5-turbo)"
      [] summarizer = "custom_llm" -> "Custom LLM (Placeholder)"
      [] OTHER -> "Disabled"

\* lines 190-200 of process_file
MakeMetadata(id, file_path, text, summary, summarizer) ==
    [lecture_id |-> id,
     original_filename |-> Name(file_path),
     has_summary |-> summary # <<>>,
     word_count |-> Len(Words(text)),
     summarizer_type |-> get_name(summarizer)]

\* a stamping that sets the timestamps whatever the dict holds
StampOverSupplied(id, md, t) ==
    [lecture_id |-> id, created_at |-> t, updated_at |-> t] @@ md

\* LocalStorage.save_metadata, lines 173-180: the timestamps are added if
\* the dict has none, and lecture_id is set
StampMetadata(id, md, t) ==
    [lecture_id |-> id] @@ md @@ [created_at |-> t, updated_at |-> t]

\* os.path.getmtime of a metadata file: the time of its last write
getmtime(dir, name) == dir[name].updated_at

\* metadata_dir.glob("*.json") sorted by modification time, newest
\* first: every order the sort can give (files written in the same second
\* keep the order of the directory listing, which is arbitrary)
Orderings(dir) ==
    LET names == { n \in DOMAIN dir : GlobMatch(<<"*", ".", "json">>, n) }
    IN  { q \in [1..Cardinality(names) -> names] :
            \A i, j \in 1..Cardinality(names) :
                i < j => /\ q[i] # q[j]
                         /\ getmtime(dir, q[i]) >= getmtime(dir, q[j]) }

\* a slice that starts at the first file whatever the offset
SliceFromStart(q, offset, limit) ==
    SubSeq(q, 1, IF limit < Len(q) THEN limit ELSE Len(q))

\* metadata_files[offset:offset+limit]
Slice(q, offset, limit) ==
    SubSeq(q, offset + 1,
           IF offset + limit < Len(q) THEN offset + limit ELSE Len(q))

\* a listing that returns file.name instead of file.stem
list_lecture_files(limit, offset) ==
    { Slice(q, offset, limit) : q \in Orderings(metadata_dir) }

\* LocalStorage.list_lectures: the lists it can return
list_lectures(limit, offset) ==
    { [ i \in DOMAIN s |-> Stem(<<"metadata/">> \o s[i]) ] :
        s \in { Slice(q, offset, limit) : q \in Orderings(metadata_dir) } }

\* the except block of convert_to_audio, lines 121-126
RemoveIfExists(fs, path) == fs \ {path}

\* a finally block that removes nothing
LeaveTempFiles(fs, temps) == fs

\* the finally block of process_file, lines 230-238; os.unlink of a file
\* the call itself created is taken to succeed
CleanUp(fs, temps) == fs \ Range(temps)

\* ------------------------------------------------------------------------
\* Part II.  process_file, one action per stage
\* ------------------------------------------------------------------------
PipeInit ==
    /\ clock = 0
    /\ files = InputPaths
    /\ audio_dir = EmptyDir
    /\ transcript_dir = EmptyDir
    /\ summary_dir = EmptyDir
    /\ metadata_dir = EmptyDir
    /\ cloud = {}
    /\ transcriber = <<>>
    /\ ppc = "idle"
    /\ args = NoArgs
    /\ lecture_id = <<>>
    /\ temp_files = <<>>
    /\ audio_path = <<>>
    /\ segments = <<>>
    /\ segments_list = <<>>
    /\ transcription = <<>>
    /\ summary_text = <<>>
    /\ exc = "none"
    /\ outcome = "none"
    /\ nruns = 0
    /\ calls = <<>>
    /\ created = {}
    /\ summ_failed = FALSE

\* an exception that is dropped: the call goes on to return
SwallowError(kind) ==
    /\ exc' = "none"
    /\ ppc' = "finally"

\* an exception leaves the try block: control goes to the finally block
Raise(kind) ==
    /\ exc' = kind
    /\ ppc' = "finally"

\* the clock advances.  datetime.now() is read for the lecture id at the
\* start of a call, so the seconds that pass during a call are taken
\* after it
PipeTick ==
    /\ ppc \in {"idle", "done"}
    /\ clock < MaxTime
    /\ clock' = clock + 1
    /\ UNCHANGED <<files, audio_dir, transcript_dir, summary_dir,
                   metadata_dir, cloud, transcriber, ppc, args, lecture_id,
                   temp_files, audio_path, segments, segments_list,
                   transcription, summary_text, exc, outcome, nruns, calls,
                   created, summ_failed>>
    /\ UNCHANGED <<delVars, awsVars, extVars>>

\* cli.handle_sigint: Ctrl+C arrives.  A second signal while the flag is
\* set changes nothing
handle_sigint ==
    /\ ppc # "exited"
    /\ IF transcriber # <<>>
       THEN /\ ~transcriber[1].cancel_requested
            /\ transcriber' =
                 <<[transcriber[1] EXCEPT !.cancel_requested = TRUE]>>
            /\ UNCHANGED ppc
       ELSE /\ ppc' = "exited"
            /\ UNCHANGED transcriber
    /\ UNCHANGED <<clock, files, audio_dir, transcript_dir, summary_dir,
                   metadata_dir, cloud, args, lecture_id, temp_files,
                   audio_path, segments, segments_list, transcription,
                   summary_text, exc, outcome, nruns, calls, created,
                   summ_failed>>
    /\ UNCHANGED <<delVars, awsVars, extVars>>

\* lines 113-135: the input is checked, the components are created and
\* the lecture id is chosen
process_file_begin ==
    /\ ppc \in {"idle", "done"}
    /\ nruns < MaxRuns
    /\ \E call \in Invocations :
         /\ args' = call
         /\ IF call.file_path \notin files
            THEN /\ exc' = "FileNotFoundError"
                 /\ outcome' = "raised"
                 /\ ppc' = "done"
                 /\ lecture_id' = <<>>
                 /\ UNCHANGED transcriber
            ELSE /\ transcriber' = <<NewTranscriber>>
                 /\ lecture_id' =
                      MakeLectureId(call.lecture_id, clock, call.file_path)
                 /\ exc' = "none"
                 /\ outcome' = "none"
                 /\ ppc' = "convert"
    /\ nruns' = nruns + 1
    /\ temp_files' = <<>>
    /\ audio_path' = <<>>
    /\ segments' = <<>>
    /\ segments_list' = <<>>
    /\ transcription' = <<>>
    /\ summary_text' = <<>>
    /\ calls' = <<>>
    /\ created' = {}
    /\ summ_failed' = FALSE
    /\ UNCHANGED <<clock, files, audio_dir, transcript_dir, summary_dir,
                   metadata_dir, cloud>>
    /\ UNCHANGED <<delVars, awsVars, extVars>>

\* step 1, lines 141-147, with AudioFileConverter.convert_to_audio
convert_step ==
    /\ ppc = "convert"
    /\ IF ~needs_conversion(args.file_path)
       THEN /\ audio_path' = args.file_path
            /\ ppc' = "save_audio"
            /\ UNCHANGED <<files, temp_files, created, exc>>
       ELSE IF args.convert_format \notin {"mp3", "wav"}
       THEN /\ Raise("ValueError")
            /\ UNCHANGED <<files, temp_files, created, audio_path>>
       ELSE LET output_path == TempPath(nruns, args.convert_format)
            IN  /\ created' = created \cup {output_path}
                /\ \E ffmpeg_ok \in BOOLEAN :
                     IF ffmpeg_ok
                     THEN /\ files' = files \cup {output_path}
                          /\ temp_files' = Append(temp_files, output_path)
                          /\ audio_path' = output_path
                          /\ ppc' = "save_audio"
                          /\ UNCHANGED exc
                     ELSE /\ files' = RemoveIfExists(files \cup {output_path},
                                                     output_path)
                          /\ Raise("RuntimeError")
                          /\ UNCHANGED <<temp_files, audio_path>>
    /\ UNCHANGED <<clock, audio_dir, transcript_dir, summary_dir,
                   metadata_dir, cloud, transcriber, args, lecture_id,
                   segments, segments_list, transcription, summary_text,
                   outcome, nruns, calls, summ_failed>>
    /\ UNCHANGED <<delVars, awsVars, extVars>>

\* step 2, line 150: storage.save_audio(audio_path, lecture_id)
save_audio_step ==
    /\ ppc = "save_audio"
    /\ calls' = Append(calls, "save_audio")
    /\ \E ok \in BOOLEAN :
         IF ~ok
         THEN /\ Raise("StorageError")
              /\ UNCHANGED <<audio_dir, cloud>>
         ELSE /\ ppc' = "transcribe"
              /\ UNCHANGED exc
              /\ IF args.storage_mode = "aws"
                 THEN /\ cloud' = cloud \cup
                           { <<AUDIO_BUCKET, <<"lectures/">>
                                \o AudioName(lecture_id, audio_path)>> }
                      /\ UNCHANGED audio_dir
                 ELSE /\ audio_dir' =
                           Put(audio_dir, AudioName(lecture_id, audio_path),
                               audio_path)
                      /\ UNCHANGED cloud
    /\ UNCHANGED <<clock, files, transcript_dir, summary_dir, metadata_dir,
                   transcriber, args, lecture_id, temp_files, audio_path,
                   segments, segments_list, transcription, summary_text,
                   outcome, nruns, created, summ_failed>>
    /\ UNCHANGED <<delVars, awsVars, extVars>>

\* step 3, line 154, and lines 80-150 of transcribe: the flag is reset,
\* the file is checked, the model is loaded and the decoding starts
transcribe_begin ==
    /\ ppc = "transcribe"
    /\ calls' = Append(calls, "transcribe")
    /\ IF audio_path \notin files
       THEN /\ transcriber' =
                 <<[transcriber[1] EXCEPT !.cancel_requested = FALSE]>>
            /\ Raise("FileNotFoundError")
            /\ UNCHANGED <<segments, segments_list>>
       ELSE \E ok \in BOOLEAN :
              IF ok
              THEN /\ transcriber' = <<[cancel_requested |-> FALSE,
                                        model_loaded |-> TRUE]>>
                   /\ segments' = SegmentsOf(args.file_path)
                   /\ segments_list' = <<>>
                   /\ ppc' = "segments"
                   /\ UNCHANGED exc
              ELSE /\ transcriber' =
                        <<[transcriber[1] EXCEPT !.cancel_requested = FALSE]>>
                   /\ Raise("TranscriptionError")
                   /\ UNCHANGED <<segments, segments_list>>
    /\ UNCHANGED <<clock, files, audio_dir, transcript_dir, summary_dir,
                   metadata_dir, cloud, args, lecture_id, temp_files,
                   audio_path, transcription, summary_text, outcome, nruns,
                   created, summ_failed>>
    /\ UNCHANGED <<delVars, awsVars, extVars>>

\* lines 154-158 of transcribe: one turn of the loop over the segments
transcribe_segment ==
    /\ ppc = "segments"
    /\ segments # <<>>
    /\ IF transcriber[1].cancel_requested
       THEN /\ Raise("InterruptedError")
            /\ UNCHANGED <<segments, segments_list>>
       ELSE /\ segments_list' = Append(segments_list, Head(segments))
            /\ segments' = Tail(segments)
            /\ UNCHANGED <<ppc, exc>>
    /\ UNCHANGED <<clock, files, audio_dir, transcript_dir, summary_dir,
                   metadata_dir, cloud, transcriber, args, lecture_id,
                   temp_files, audio_path, transcription, summary_text,
                   outcome, nruns, calls, created, summ_failed>>
    /\ UNCHANGED <<delVars, awsVars, extVars>>

\* lines 160-199 of transcribe: the result is built; for an empty text and
\* a non-empty segments_list, line 188 calls get on a segment object
transcribe_end ==
    /\ ppc = "segments"
    /\ segments = <<>>
    /\ LET result == MakeResult(segments_list)
       IN  IF result.text = <<>> /\ segments_list # <<>>
           THEN /\ Raise("AttributeError")
                /\ UNCHANGED transcription
           ELSE /\ transcription' = <<result>>
                /\ ppc' = "save_transcript"
                /\ UNCHANGED exc
    /\ UNCHANGED <<clock, files, audio_dir, transcript_dir, summary_dir,
                   metadata_dir, cloud, transcriber, args, lecture_id,
                   temp_files, audio_path, segments, segments_list,
                   summary_text, outcome, nruns, calls, created,
                   summ_failed>>
    /\ UNCHANGED <<delVars, awsVars, extVars>>

\* storage.save_transcript(lecture_id, transcript_text), then go to next
save_transcript(next) ==
    /\ calls' = Append(calls, "save_transcript")
    /\ \E ok \in BOOLEAN :
         IF ~ok
         THEN /\ Raise("StorageError")
              /\ UNCHANGED <<transcript_dir, cloud>>
         ELSE /\ ppc' = next
              /\ UNCHANGED exc
              /\ IF args.storage_mode = "aws"
                 THEN /\ cloud' = cloud \cup
                           { <<TRANSCRIPT_BUCKET, <<"transcripts/">>
                                \o TranscriptName(lecture_id)>> }
                      /\ UNCHANGED transcript_dir
                 ELSE /\ transcript_dir' =
                           Put(transcript_dir, TranscriptName(lecture_id),
                               transcription[1].text)
                      /\ UNCHANGED cloud

\* step 4, line 158
save_transcript_step ==
    /\ ppc = "save_transcript"
    /\ save_transcript("save_timestamps")
    /\ UNCHANGED <<clock, files, audio_dir, summary_dir, metadata_dir,
                   transcriber, args, lecture_id, temp_files, audio_path,
                   segments, segments_list, transcription, summary_text,
                   outcome, nruns, created, summ_failed>>
    /\ UNCHANGED <<delVars, awsVars, extVars>>

\* step 4, line 159: SecureAWSStorage has no such method
save_timestamps_step ==
    /\ ppc = "save_timestamps"
    /\ calls' = Append(calls, "save_transcript_with_timestamps")
    /\ IF args.storage_mode = "aws"
       THEN /\ Raise("AttributeError")
            /\ UNCHANGED transcript_dir
       ELSE \E ok \in BOOLEAN :
              IF ok
              THEN /\ transcript_dir' =
                        Put(transcript_dir, TimestampedName(lecture_id),
                            FormatSegments(transcription[1].segments))
                   /\ ppc' = "save_transcript_again"
                   /\ UNCHANGED exc
              ELSE /\ Raise("StorageError")
                   /\ UNCHANGED transcript_dir
    /\ UNCHANGED <<clock, files, audio_dir, summary_dir, metadata_dir,
                   cloud, transcriber, args, lecture_id, temp_files,
                   audio_path, segments, segments_list, transcription,
                   summary_text, outcome, nruns, created, summ_failed>>
    /\ UNCHANGED <<delVars, awsVars, extVars>>

\* step 4, lines 165-177: the transcript is saved once more and read back
save_transcript_again ==
    /\ ppc = "save_transcript_again"
    /\ save_transcript("summarize")
    /\ UNCHANGED <<clock, files, audio_dir, summary_dir, metadata_dir,
                   transcriber, args, lecture_id, temp_files, audio_path,
                   segments, segments_list, transcription, summary_text,
                   outcome, nruns, created, summ_failed>>
    /\ UNCHANGED <<delVars, awsVars, extVars>>

\* step 5, lines 180-183: summarizer.summarize(transcription)
summarize_step ==
    /\ ppc = "summarize"
    /\ LET summarizer == get_summarizer(args.summarizer_type)
       IN  CASE summarizer = "none" ->
                  /\ summary_text' = <<>>
                  /\ ppc' = "save_metadata"
                  /\ UNCHANGED <<calls, summ_failed, exc>>
             [] summarizer = "openai" ->
                  \E api \in APIOutcomes :
                    LET summary == openai_summarize(transcription[1], api)
                    IN  /\ calls' = Append(calls, "summarize")
                        /\ summary_text' = summary
                        /\ summ_failed' = (summary = <<>>)
                        /\ ppc' = IF Truthy(summary) THEN "save_summary"
                                                     ELSE "save_metadata"
                        /\ UNCHANGED exc
             [] summarizer = "custom_llm" ->
                  LET r == custom_llm_summarize(transcription[1])
                  IN  /\ calls' = Append(calls, "summarize")
                      /\ IF r.raised
                         THEN /\ summ_failed' = TRUE
                              /\ Raise("AttributeError")
                              /\ UNCHANGED summary_text
                         ELSE /\ summary_text' = r.value
                              /\ summ_failed' = (r.value = <<>>)
                              /\ ppc' = IF Truthy(r.value) THEN "save_summary"
                                                           ELSE "save_metadata"
                              /\ UNCHANGED exc
    /\ UNCHANGED <<clock, files, audio_dir, transcript_dir, summary_dir,
                   metadata_dir, cloud, transcriber, args, lecture_id,
                   temp_files, audio_path, segments, segments_list,
                   transcription, outcome, nruns, created>>
    /\ UNCHANGED <<delVars, awsVars, extVars>>

\* step 5, lines 186-187: storage.save_summary(lecture_id, summary_text);
\* SecureAWSStorage has no such method
save_summary_step ==
    /\ ppc = "save_summary"
    /\ calls' = Append(calls, "save_summary")
    /\ IF args.storage_mode = "aws"
       THEN /\ Raise("AttributeError")
            /\ UNCHANGED summary_dir
       ELSE \E ok \in BOOLEAN :
              IF ok
              THEN /\ summary_dir' =
                        Put(summary_dir, SummaryName(lecture_id),
                            summary_text[1])
                   /\ ppc' = "save_metadata"
                   /\ UNCHANGED exc
              ELSE /\ Raise("StorageError")
                   /\ UNCHANGED summary_dir
    /\ UNCHANGED <<clock, files, audio_dir, transcript_dir, metadata_dir,
                   cloud, transcriber, args, lecture_id, temp_files,
                   audio_path, segments, segments_list, transcription,
                   summary_text, outcome, nruns, created, summ_failed>>
    /\ UNCHANGED <<delVars, awsVars, extVars>>

\* step 6, lines 190-201, and the return of lines 224-229
save_metadata_step ==
    /\ ppc = "save_metadata"
    /\ calls' = Append(calls, "save_metadata")
    /\ \E ok \in BOOLEAN :
         IF ~ok
         THEN /\ Raise("StorageError")
              /\ UNCHANGED <<metadata_dir, cloud>>
         ELSE /\ ppc' = "finally"
              /\ UNCHANGED exc
              /\ IF args.storage_mode = "aws"
                 THEN /\ cloud' = cloud \cup {<<METADATA_TABLE, lecture_id>>}
                      /\ UNCHANGED metadata_dir
                 ELSE /\ metadata_dir' =
                           Put(metadata_dir, MetadataName(lecture_id),
                               StampMetadata(lecture_id,
                                 MakeMetadata(lecture_id, args.file_path,
                                              transcription[1].text,
                                              summary_text,
                                              get_summarizer(args.summarizer_type)),
                                 clock))
                      /\ UNCHANGED cloud
    /\ UNCHANGED <<clock, files, audio_dir, transcript_dir, summary_dir,
                   transcriber, args, lecture_id, temp_files, audio_path,
                   segments, segments_list, transcription, summary_text,
                   outcome, nruns, created, summ_failed>>
    /\ UNCHANGED <<delVars, awsVars, extVars>>

\* lines 230-238: the finally block, then the call returns or raises
process_file_finally ==
    /\ ppc = "finally"
    /\ files' = CleanUp(files, temp_files)
    /\ outcome' = IF exc = "none" THEN "returned" ELSE "raised"
    /\ ppc' = "done"
    /\ UNCHANGED <<clock, audio_dir, transcript_dir, summary_dir,
                   metadata_dir, cloud, transcriber, args, lecture_id,
                   temp_files, audio_path, segments, segments_list,
                   transcription, summary_text, exc, nruns, calls, created,
                   summ_failed>>
    /\ UNCHANGED <<delVars, awsVars, extVars>>

PipeNext ==
    \/ PipeTick
    \/ handle_sigint
    \/ process_file_begin
    \/ convert_step
    \/ save_audio_step
    \/ transcribe_begin
    \/ transcribe_segment
    \/ transcribe_end
    \/ save_transcript_step
    \/ save_timestamps_step
    \/ save_transcript_again
    \/ summarize_step
    \/ save_summary_step
    \/ save_metadata_step
    \/ process_file_finally

\* ------------------------------------------------------------------------
\* Part III.  SecureAWSStorage called directly (secure_aws_storage.py)
\* ------------------------------------------------------------------------
\* the calls one behaviour makes
MaxCalls == 2

\* lines 57-65: Config(retries={'max_attempts': 10, 'mode': 'adaptive'}):
\* botocore re-sends a request the service refused with a retryable error,
\* at most max_attempts times after the first attempt
max_attempts == 10

\* line 280: timedelta(days=548), in seconds
RETENTION == 548 * 86400

\* what the service does with the requests of one client call: it refuses
\* the first `throttled` attempts with a retryable error and, when an
\* attempt gets through, denies it (a non-retryable error) or serves it
Backends ==
    [ throttled : (0..MaxFaults) \cup {max_attempts + 1}, denied : BOOLEAN ]

\* one client call as botocore performs it: the attempts sent, the attempts
\* the service refused, and the error raised to the caller ("none": served)
Request(b) ==
    IF b.throttled > max_attempts
    THEN [attempts |-> max_attempts + 1, refused |-> max_attempts + 1,
          error |-> "ThrottlingException"]
    ELSE IF b.denied
    THEN [attempts |-> b.throttled + 1, refused |-> b.throttled + 1,
          error |-> "AccessDeniedException"]
    ELSE [attempts |-> b.throttled + 1, refused |-> b.throttled,
          error |-> "none"]

\* user_context: <<>> is None
UserContexts == { <<>>, << [user_id |-> "u1", school_id |-> "s1"] >> }

AwsLectureIds == { <<"a">>, <<"b">> }

\* a Python dict is the sequence of its <<key, value>> pairs, in insertion
\* order
DictKeys(dict) == [ i \in DOMAIN dict |-> dict[i][1] ]

HasKey(dict, key) == \E i \in DOMAIN dict : dict[i][1] = key

\* dict[key] = value
DictSet(dict, key, value) ==
    IF HasKey(dict, key)
    THEN [ i \in DOMAIN dict |->
             IF dict[i][1] = key THEN <<key, value>> ELSE dict[i] ]
    ELSE Append(dict, <<key, value>>)

\* the item DynamoDB stores for a dict: attribute name -> value
ItemOf(dict) ==
    [ key \in Range(DictKeys(dict)) |->
        dict[CHOOSE i \in DOMAIN dict : dict[i][1] = key][2] ]

\* the metadata dicts callers pass
MetadataInputs ==
    { << <<"title", "t1">> >>,
      << <<"title", "t2">> >>,
      << <<"title", "t2">>, <<"language", "en">> >> }

\* lines 271-287: save_metadata completes the caller's dict
CompleteMetadata(id, md, user_context, t) ==
    LET m1 == IF HasKey(md, "created_at") THEN md
              ELSE DictSet(md, "created_at", t)
        m2 == IF HasKey(m1, "updated_at") THEN m1
              ELSE DictSet(m1, "updated_at", t)
        m3 == DictSet(m2, "ttl", t + RETENTION)
        m4 == DictSet(m3, "lecture_id", id)
    IN  IF user_context # <<>>
        THEN DictSet(DictSet(m4, "user_id", user_context[1].user_id),
                     "school_id", user_context[1].school_id)
        ELSE m4

\* lines 291-294: put_item(Item, ConditionExpression=
\* 'attribute_not_exists(lecture_id)'): the item is written only when the
\* table has no item with that key
conditional_put_item(table, id, item, b) ==
    LET r == Request(b)
    IN  IF r.error # "none" THEN [error |-> r.error, table |-> table]
        ELSE IF id \in DOMAIN table
        THEN [error |-> "ConditionalCheckFailedException", table |-> table]
        ELSE [error |-> "none", table |-> (id :> item) @@ table]

\* words DynamoDB reserves: an expression that uses one as an attribute name
\* without an alias is rejected
RESERVED_WORDS == { "ttl", "language", "status", "name" }

\* lines 318-325: "SET updated_at = :updated_at" followed by
\* ", key = :key" for every key of the dict but lecture_id and created_at
UpdatePaths(dict) ==
    <<"updated_at">> \o
    SelectSeq(DictKeys(dict),
              LAMBDA key : key \notin {"lecture_id", "created_at"})

\* DynamoDB validates an update expression before applying it: no attribute
\* may be set twice and none may be a reserved word
ValidUpdate(paths) ==
    /\ \A i, j \in DOMAIN paths : paths[i] = paths[j] => i = j
    /\ \A i \in DOMAIN paths : paths[i] \notin RESERVED_WORDS

\* lines 327-331: update_item(Key, UpdateExpression,
\* ExpressionAttributeValues): sets the named attributes of the item
update_item_set(table, id, paths, values, b) ==
    LET r == Request(b)
    IN  IF r.error # "none" THEN [error |-> r.error, table |-> table]
        ELSE IF ~ValidUpdate(paths)
        THEN [error |-> "ValidationException", table |-> table]
        ELSE [error |-> "none",
              table |-> (id :> ([ i \in Range(paths) |-> values[i] ] @@
                                (IF id \in DOMAIN table THEN table[id]
                                 ELSE [lecture_id |-> id])))
                        @@ table]

\* lines 314-339: _update_metadata; line 319 overwrites :updated_at with the
\* dict's own updated_at at line 325
update_metadata(table, id, dict, b) ==
    LET r == update_item_set(table, id, UpdatePaths(dict), ItemOf(dict), b)
    IN  [value |-> IF r.error = "none" THEN "True" ELSE "False",
         error |-> r.error,
         table |-> r.table]

\* logger.audit_trail(action, resource, user_id, result)
AuditEntry(action, resource, user_context) ==
    [audit_action |-> action, audit_resource |-> resource,
     audit_user |-> user_context[1].user_id, audit_result |-> "success"]

\* how a call ended.  result is "returned" or "raised"; value is what it
\* returned; refused counts the requests of the call the service refused;
\* the other fields repeat the arguments
Outcome(op, id, uc, md, existed, result, value, attempts, refused, error) ==
    [op |-> op, lecture_id |-> id, user_context |-> uc,
     metadata |-> md, existed |-> existed, result |-> result,
     value |-> value, attempts |-> attempts, refused |-> refused,
     error |-> error]

AwsInit ==
    /\ utcnow = 0
    /\ objects = << >>
    /\ metadata_table = << >>
    /\ audit_log = << >>
    /\ ret = Outcome("none", <<>>, <<>>, <<>>, FALSE, "returned", "None",
                     0, 0, "none")
    /\ ncalls = 0

AwsTick ==
    /\ utcnow < MaxTime
    /\ utcnow' = utcnow + 1
    /\ UNCHANGED <<objects, metadata_table, audit_log, ret, ncalls>>
    /\ UNCHANGED <<delVars, pipeVars, extVars>>

\* lines 78-150: save_audio.  _get_kms_key_id (describe_key) is served
aws_save_audio ==
    \E file_path \in {AudioA, VideoA},
       given \in {<<>>} \cup { <<id>> : id \in AwsLectureIds },
       user_context \in UserContexts, b \in Backends :
        LET id == MakeLectureId(given, utcnow, file_path)
            s3_key == <<"lectures/">> \o id \o Suffix(file_path)
            r == Request(b)
        IN  /\ ncalls < MaxCalls
            /\ ncalls' = ncalls + 1
            /\ IF r.error = "none"
               THEN /\ objects' = (<<AUDIO_BUCKET, s3_key>> :> file_path)
                                  @@ objects
                    /\ audit_log' =
                         IF user_context # <<>>
                         THEN Append(audit_log,
                                     AuditEntry("UPLOAD_AUDIO", s3_key,
                                                user_context))
                         ELSE audit_log
                    /\ ret' = Outcome("save_audio", id, user_context, <<>>,
                                      FALSE, "returned", "lecture_id",
                                      r.attempts, r.refused, "none")
               ELSE /\ ret' = Outcome("save_audio", id, user_context, <<>>,
                                      FALSE, "raised", "None",
                                      r.attempts, r.refused, r.error)
                    /\ UNCHANGED <<objects, audit_log>>
            /\ UNCHANGED <<utcnow, metadata_table>>
            /\ UNCHANGED <<delVars, pipeVars, extVars>>

\* lines 199-257: save_transcript
aws_save_transcript ==
    \E id \in AwsLectureIds, user_context \in UserContexts, b \in Backends :
        LET s3_key == <<"transcripts/">> \o id \o <<".", "txt">>
            r == Request(b)
        IN  /\ ncalls < MaxCalls
            /\ ncalls' = ncalls + 1
            /\ IF r.error = "none"
               THEN /\ objects' = (<<TRANSCRIPT_BUCKET, s3_key>> :> <<"w">>)
                                  @@ objects
                    /\ audit_log' =
                         IF user_context # <<>>
                         THEN Append(audit_log,
                                     AuditEntry("SAVE_TRANSCRIPT", s3_key,
                                                user_context))
                         ELSE audit_log
                    /\ ret' = Outcome("save_transcript", id, user_context,
                                      <<>>, FALSE, "returned", "s3_uri",
                                      r.attempts, r.refused, "none")
               ELSE /\ ret' = Outcome("save_transcript", id, user_context,
                                      <<>>, FALSE, "raised", "None",
                                      r.attempts, r.refused, r.error)
                    /\ UNCHANGED <<objects, audit_log>>
            /\ UNCHANGED <<utcnow, metadata_table>>
            /\ UNCHANGED <<delVars, pipeVars, extVars>>

\* lines 259-312: save_metadata, with _update_metadata where it is called
aws_save_metadata ==
    \E id \in AwsLectureIds, md \in MetadataInputs,
       user_context \in UserContexts, b1 \in Backends, b2 \in Backends :
        LET dict == CompleteMetadata(id, md, user_context, utcnow)
            existed == id \in DOMAIN metadata_table
            put == conditional_put_item(metadata_table, id, ItemOf(dict), b1)
            upd == update_metadata(metadata_table, id, dict, b2)
            r1 == Request(b1)
            r2 == Request(b2)
        IN  /\ ncalls < MaxCalls
            /\ ncalls' = ncalls + 1
            /\ IF put.error = "none"
               THEN /\ metadata_table' = put.table
                    /\ ret' = Outcome("save_metadata", id, user_context,
                                      <<md>>, existed, "returned", "True",
                                      r1.attempts, r1.refused, "none")
               ELSE IF put.error = "ConditionalCheckFailedException"
               THEN /\ metadata_table' = upd.table
                    /\ ret' = Outcome("save_metadata", id, user_context,
                                      <<md>>, existed, "returned", upd.value,
                                      r1.attempts + r2.attempts,
                                      r1.refused + r2.refused, upd.error)
               ELSE /\ metadata_table' = metadata_table
                    /\ ret' = Outcome("save_metadata", id, user_context,
                                      <<md>>, existed, "raised", "None",
                                      r1.attempts, r1.refused, put.error)
            /\ UNCHANGED <<utcnow, objects, audit_log>>
            /\ UNCHANGED <<delVars, pipeVars, extVars>>

AwsNext ==
    \/ AwsTick
    \/ aws_save_audio
    \/ aws_save_transcript
    \/ aws_save_metadata

\* ------------------------------------------------------------------------
\* Part IV.  LocalStorage called directly (local_storage.py)
\* ------------------------------------------------------------------------
\* the calls one behaviour makes
MaxLocalCalls == 3

\* the lecture ids callers pass
LocalIds == { <<"a">>, <<"b">>, <<"c">> }

\* the variables of the pipeline a LocalStorage call does not touch
pipeControl ==
    <<files, cloud, transcriber, ppc, args, lecture_id, temp_files,
      audio_path, segments, segments_list, transcription, summary_text, exc,
      outcome, nruns, calls, created, summ_failed>>

\* lines 215-236: get_summary; <<>> is None
get_summary(dir, id) ==
    IF SummaryName(id) \in DOMAIN dir THEN <<dir[SummaryName(id)]>> ELSE <<>>

\* lines 238-259: get_metadata; <<>> is None.  The dicts of the model hold
\* strings and integers under string keys, which json.dump and json.load
\* return unchanged
get_metadata(dir, id) ==
    IF MetadataName(id) \in DOMAIN dir THEN <<dir[MetadataName(id)]>> ELSE <<>>

\* the summaries callers pass: None, the empty text, a text
SummaryInputs == { <<>>, << <<>> >>, << <<"s">> >> }

\* the metadata dicts callers pass; none sets updated_at, so that the
\* updated_at of a stored dict is the time its file was written
LocalMetadataInputs ==
    { [title |-> "t1"],
      [title |-> "t2", created_at |-> 0],
      [title |-> "t1", word_count |-> 3] }

\* how a call ended: result is "returned" or "raised", value what it
\* returned (<<>> is None); arg repeats the argument
LocalOutcome(op, id, arg, result, value) ==
    [op |-> op, lecture_id |-> id, arg |-> arg, result |-> result,
     value |-> value]

LocalInit ==
    /\ lret = LocalOutcome("none", <<>>, <<>>, "returned", <<>>)
    /\ nlocal = 0

\* lines 132-158: a summary that is not None is written to
\* summaries/{lecture_id}.txt and its path returned
write_summary_always(dir, id, text) ==
    [dir |-> Put(dir, SummaryName(id), IF text = <<>> THEN <<>> ELSE text[1]),
     value |-> << <<"summaries/">> \o SummaryName(id) >>]

save_summary(dir, id, text) ==
    IF text = <<>>
    THEN [dir |-> dir, value |-> <<>>]
    ELSE [dir |-> Put(dir, SummaryName(id), text[1]),
          value |-> << <<"summaries/">> \o SummaryName(id) >>]

\* lines 132-158: save_summary, the write failing or not
local_save_summary ==
    \E id \in LocalIds, text \in SummaryInputs, ok \in BOOLEAN :
        LET saved == save_summary(summary_dir, id, text)
        IN  /\ nlocal < MaxLocalCalls
            /\ nlocal' = nlocal + 1
            /\ IF ok \/ text = <<>>
               THEN /\ summary_dir' = saved.dir
                    /\ lret' = LocalOutcome("save_summary", id, text,
                                            "returned", saved.value)
               ELSE /\ lret' = LocalOutcome("save_summary", id, text,
                                            "raised", <<>>)
                    /\ UNCHANGED summary_dir
            /\ UNCHANGED <<clock, audio_dir, transcript_dir, metadata_dir>>
            /\ UNCHANGED <<pipeControl, delVars, awsVars, engVars, batVars,
                       authVars>>

\* lines 160-190: save_metadata
local_save_metadata ==
    \E id \in LocalIds, md \in LocalMetadataInputs, ok \in BOOLEAN :
        /\ nlocal < MaxLocalCalls
        /\ nlocal' = nlocal + 1
        /\ IF ok
           THEN /\ metadata_dir' = Put(metadata_dir, MetadataName(id),
                                       StampMetadata(id, md, clock))
                /\ lret' = LocalOutcome("save_metadata", id, <<md>>,
                                        "returned",
                                        << <<"metadata/">> \o MetadataName(id) >>)
           ELSE /\ lret' = LocalOutcome("save_metadata", id, <<md>>,
                                        "raised", <<>>)
                /\ UNCHANGED metadata_dir
        /\ UNCHANGED <<clock, audio_dir, transcript_dir, summary_dir>>
        /\ UNCHANGED <<pipeControl, delVars, awsVars, engVars, batVars,
                       authVars>>

\* lines 215-259: get_summary and get_metadata
local_get ==
    \E id \in LocalIds, op \in {"get_summary", "get_metadata"} :
        /\ nlocal < MaxLocalCalls
        /\ nlocal' = nlocal + 1
        /\ lret' = LocalOutcome(op, id, <<>>, "returned",
                                IF op = "get_summary"
                                THEN get_summary(summary_dir, id)
                                ELSE get_metadata(metadata_dir, id))
        /\ UNCHANGED <<clock, audio_dir, transcript_dir, summary_dir,
                       metadata_dir>>
        /\ UNCHANGED <<pipeControl, delVars, awsVars, engVars, batVars,
                       authVars>>

\* lines 261-284: list_lectures(limit, offset)
local_list_lectures ==
    \E limit \in {1, 2, 100}, offset \in {0, 1} :
    \E ids \in list_lectures(limit, offset) :
        /\ nlocal < MaxLocalCalls
        /\ nlocal' = nlocal + 1
        /\ lret' = LocalOutcome("list_lectures", <<>>, <<limit, offset>>,
                                "returned", ids)
        /\ UNCHANGED <<clock, audio_dir, transcript_dir, summary_dir,
                       metadata_dir>>
        /\ UNCHANGED <<pipeControl, delVars, awsVars, engVars, batVars,
                       authVars>>

\* datetime.now() advances between calls
LocalTick ==
    /\ clock < MaxTime
    /\ clock' = clock + 1
    /\ UNCHANGED <<audio_dir, transcript_dir, summary_dir, metadata_dir>>
    /\ UNCHANGED <<pipeControl, delVars, awsVars, locVars, engVars,
                   batVars, authVars>>

LocalNext ==
    \/ LocalTick
    \/ local_save_summary
    \/ local_save_metadata
    \/ local_get
    \/ local_list_lectures

\* ------------------------------------------------------------------------
\* Part V.  One WhisperTranscriber called directly (whisper_service.py)
\* ------------------------------------------------------------------------
\* the audio paths callers pass; in/b.mp3 does not exist
EngineInputs == {AudioA, Silent, Blank, Missing}

EngineInit ==
    /\ engine = <<>>
    /\ tpc = "idle"
    /\ t_audio_path = <<>>
    /\ t_segments = <<>>
    /\ t_segments_list = <<>>
    /\ t_result = <<>>
    /\ t_error = "none"
    /\ loads = 0
    /\ ntranscribe = 0
    /\ cancel_during = FALSE

\* a transcribe that keeps a cancellation requested before the call
enter_keeping_flag(self) == self

\* line 80: transcribe starts with self.cancel_requested = False
enter_transcribe(self) == [self EXCEPT !.cancel_requested = FALSE]

\* a _load_model that constructs a model at every call
load_model_again(self) ==
    [self |-> [self EXCEPT !.model_loaded = TRUE], constructed |-> 1]

\* lines 46-68: _load_model constructs the model if self.model is None
load_model(self) ==
    IF self.model_loaded THEN [self |-> self, constructed |-> 0]
    ELSE [self |-> [self EXCEPT !.model_loaded = TRUE], constructed |-> 1]

\* lines 30-44: WhisperTranscriber(...)
engine_init ==
    /\ engine = <<>>
    /\ engine' = <<NewTranscriber>>
    /\ UNCHANGED <<tpc, t_audio_path, t_segments, t_segments_list, t_result,
                   t_error, loads, ntranscribe, cancel_during>>
    /\ UNCHANGED <<delVars, pipeVars, awsVars, locVars, batVars,
                   authVars>>

\* lines 256-259: cancel_transcription, from another thread or a signal
\* handler
cancel_transcription ==
    /\ engine # <<>>
    /\ ~engine[1].cancel_requested
    /\ engine' = <<[engine[1] EXCEPT !.cancel_requested = TRUE]>>
    /\ cancel_during' = (cancel_during \/ tpc # "idle")
    /\ UNCHANGED <<tpc, t_audio_path, t_segments, t_segments_list, t_result,
                   t_error, loads, ntranscribe>>
    /\ UNCHANGED <<delVars, pipeVars, awsVars, locVars, batVars,
                   authVars>>

\* lines 80-85: the call starts; a missing file raises FileNotFoundError
engine_transcribe_begin ==
    \E path \in EngineInputs :
        /\ engine # <<>>
        /\ tpc = "idle"
        /\ ntranscribe < MaxRuns
        /\ ntranscribe' = ntranscribe + 1
        /\ engine' = <<enter_transcribe(engine[1])>>
        /\ cancel_during' = FALSE
        /\ t_audio_path' = path
        /\ t_result' = <<>>
        /\ t_segments_list' = <<>>
        /\ IF path \in files
           THEN /\ tpc' = "load_model"
                /\ t_error' = "none"
           ELSE /\ tpc' = "idle"
                /\ t_error' = "FileNotFoundError"
        /\ UNCHANGED <<t_segments, loads>>
        /\ UNCHANGED <<delVars, pipeVars, awsVars, locVars, batVars,
                   authVars>>

\* lines 131, 141-148: _load_model, then model.transcribe gives the
\* segment generator; constructing the model can fail
engine_load_model ==
    /\ tpc = "load_model"
    /\ \E ok \in BOOLEAN :
         LET r == load_model(engine[1])
         IN  IF ok \/ r.constructed = 0
             THEN /\ engine' = <<r.self>>
                  /\ loads' = loads + r.constructed
                  /\ tpc' = "segments"
                  /\ t_segments' = SegmentsOf(t_audio_path)
                  /\ UNCHANGED t_error
             ELSE /\ tpc' = "idle"
                  /\ t_error' = "RuntimeError"
                  /\ UNCHANGED <<engine, loads, t_segments>>
    /\ UNCHANGED <<t_audio_path, t_segments_list, t_result, ntranscribe,
                   cancel_during>>
    /\ UNCHANGED <<delVars, pipeVars, awsVars, locVars, batVars,
                   authVars>>

\* lines 151-156: one turn of the loop over the segments; decoding a
\* segment can fail
engine_segment ==
    /\ tpc = "segments"
    /\ t_segments # <<>>
    /\ \E ok \in BOOLEAN :
         IF ~ok
         THEN /\ tpc' = "idle"
              /\ t_error' = "RuntimeError"
              /\ UNCHANGED <<t_segments, t_segments_list>>
         ELSE IF engine[1].cancel_requested
         THEN /\ tpc' = "idle"
              /\ t_error' = "InterruptedError"
              /\ UNCHANGED <<t_segments, t_segments_list>>
         ELSE /\ t_segments_list' = Append(t_segments_list, Head(t_segments))
              /\ t_segments' = Tail(t_segments)
              /\ UNCHANGED <<tpc, t_error>>
    /\ UNCHANGED <<engine, t_audio_path, t_result, loads, ntranscribe,
                   cancel_during>>
    /\ UNCHANGED <<delVars, pipeVars, awsVars, locVars, batVars,
                   authVars>>

\* lines 159-199: the result dict; an empty text with segments raises
\* AttributeError at line 188
engine_transcribe_end ==
    /\ tpc = "segments"
    /\ t_segments = <<>>
    /\ tpc' = "idle"
    /\ IF MakeResult(t_segments_list).text = <<>> /\ t_segments_list # <<>>
       THEN /\ t_error' = "AttributeError"
            /\ UNCHANGED t_result
       ELSE /\ t_result' = <<MakeResult(t_segments_list)>>
            /\ UNCHANGED t_error
    /\ UNCHANGED <<engine, t_audio_path, t_segments, t_segments_list, loads,
                   ntranscribe, cancel_during>>
    /\ UNCHANGED <<delVars, pipeVars, awsVars, locVars, batVars,
                   authVars>>

EngineNext ==
    \/ engine_init
    \/ cancel_transcription
    \/ engine_transcribe_begin
    \/ engine_load_model
    \/ engine_segment
    \/ engine_transcribe_end

\* ------------------------------------------------------------------------
\* Part VI.  Batch processing with worker threads (process_batch.py)
\* ------------------------------------------------------------------------
\* the audio files found in the directory
MaxFiles == 2

\* --workers
Workers == 2

Tasks == 1..MaxFiles

Running == { t \in Tasks : wpc[t] \in {"created", "segments"} }

BatchInit ==
    /\ g_transcriber = 0
    /\ wpc = [ t \in Tasks |-> "queued" ]
    /\ engine_used = [ t \in Tasks |-> 0 ]
    /\ cancel_flags = [ t \in Tasks |-> FALSE ]
    /\ seg_left = [ t \in Tasks |-> 0 ]
    /\ batch_exited = FALSE
    /\ nsigint = 0

\* process_batch.py lines 131-132 and cli.py lines 122-127: a pool thread
\* takes the next file and process_file assigns a new WhisperTranscriber
\* to the global
batch_process_file_begin(t) ==
    /\ ~batch_exited
    /\ wpc[t] = "queued"
    /\ \A u \in Tasks : u < t => wpc[u] # "queued"
    /\ Cardinality(Running) < Workers
    /\ wpc' = [wpc EXCEPT ![t] = "created"]
    /\ g_transcriber' = t
    /\ cancel_flags' = [cancel_flags EXCEPT ![t] = FALSE]
    /\ UNCHANGED <<engine_used, seg_left, batch_exited, nsigint>>
    /\ UNCHANGED <<delVars, pipeVars, awsVars, locVars, engVars,
                   authVars>>

\* cli.py line 154: transcriber.transcribe(audio_path) on the instance the
\* global names now; whisper_service.py line 80 clears its flag
batch_transcribe_begin(t) ==
    /\ ~batch_exited
    /\ wpc[t] = "created"
    /\ wpc' = [wpc EXCEPT ![t] = "segments"]
    /\ engine_used' = [engine_used EXCEPT ![t] = g_transcriber]
    /\ cancel_flags' = [cancel_flags EXCEPT ![g_transcriber] = FALSE]
    /\ seg_left' = [seg_left EXCEPT ![t] = MaxSegments]
    /\ UNCHANGED <<g_transcriber, batch_exited, nsigint>>
    /\ UNCHANGED <<delVars, pipeVars, awsVars, locVars, engVars,
                   authVars>>

\* whisper_service.py lines 151-156: one turn of the loop, then the rest of
\* process_file
batch_segment(t) ==
    /\ ~batch_exited
    /\ wpc[t] = "segments"
    /\ IF seg_left[t] = 0
       THEN /\ wpc' = [wpc EXCEPT ![t] = "returned"]
            /\ UNCHANGED seg_left
       ELSE IF cancel_flags[engine_used[t]]
       THEN /\ wpc' = [wpc EXCEPT ![t] = "cancelled"]
            /\ UNCHANGED seg_left
       ELSE /\ seg_left' = [seg_left EXCEPT ![t] = seg_left[t] - 1]
            /\ UNCHANGED wpc
    /\ UNCHANGED <<g_transcriber, engine_used, cancel_flags, batch_exited,
                   nsigint>>
    /\ UNCHANGED <<delVars, pipeVars, awsVars, locVars, engVars,
                   authVars>>

\* cli.py lines 40-49: handle_sigint in the main thread
batch_handle_sigint ==
    /\ ~batch_exited
    /\ nsigint < MaxFaults
    /\ nsigint' = nsigint + 1
    /\ IF g_transcriber # 0
       THEN /\ cancel_flags' = [cancel_flags EXCEPT ![g_transcriber] = TRUE]
            /\ UNCHANGED batch_exited
       ELSE /\ batch_exited' = TRUE
            /\ UNCHANGED cancel_flags
    /\ UNCHANGED <<g_transcriber, wpc, engine_used, seg_left>>
    /\ UNCHANGED <<delVars, pipeVars, awsVars, locVars, engVars,
                   authVars>>

BatchNext ==
    \/ \E t \in Tasks : batch_process_file_begin(t)
    \/ \E t \in Tasks : batch_transcribe_begin(t)
    \/ \E t \in Tasks : batch_segment(t)
    \/ batch_handle_sigint

\* ------------------------------------------------------------------------
\* Part VII.  Authentication decorators (auth/jwt_validator.py)
\* ------------------------------------------------------------------------
\* lines 246-259: @requires_role('admin', 'teacher')
allowed_roles == {"admin", "teacher"}

\* line 116: the roles _validate_claims accepts
valid_roles == {"admin", "teacher", "student", "viewer"}

\* the requests: where the token stands, whether jwt.decode accepts it
\* (signature, audience, issuer, expiry) and the custom:role claim it
\* carries, "" when it carries none
AuthEvents ==
    [ token : {"none", "Authorization: Bearer", "Authorization: Basic",
               "query"},
      decodes : BOOLEAN,
      role : valid_roles \cup {"root", ""} ]

\* what the handler body does when it runs
HandlerOutcomes == {"returns 200", "returns 401", "raises"}

\* lines 121-145: extract_token finds a token
extract_token(event) ==
    event.token \in {"Authorization: Bearer", "query"}

\* lines 40-118: validate_token returns the claims
validate_token(event) ==
    /\ event.decodes
    /\ event.role \in valid_roles

\* lines 147-188: the wrapper of requires_auth: statusCode and whether the
\* handler body ran
requires_auth(event, handled) ==
    IF ~extract_token(event) THEN [statusCode |-> 401, ran |-> FALSE]
    ELSE IF ~validate_token(event) THEN [statusCode |-> 401, ran |-> FALSE]
    ELSE [statusCode |-> IF handled = "returns 200" THEN 200 ELSE 401,
          ran |-> TRUE]

\* lines 190-226: the wrapper of requires_role
requires_role(event, handled) ==
    LET r == requires_auth(event, handled)
        user_role == IF r.ran THEN event.role ELSE ""
    IN  IF r.statusCode = 401 THEN r
        ELSE IF user_role \notin allowed_roles
        THEN [statusCode |-> 403, ran |-> r.ran]
        ELSE r

AuthInit ==
    /\ auth_event = [token |-> "none", decodes |-> FALSE, role |-> ""]
    /\ auth_result = 0
    /\ handler_ran = FALSE
    /\ nauth = 0

\* one request to the decorated handler
auth_request ==
    \E event \in AuthEvents, handled \in HandlerOutcomes :
        LET r == requires_role(event, handled)
        IN  /\ nauth < MaxCalls
            /\ nauth' = nauth + 1
            /\ auth_event' = event
            /\ auth_result' = r.statusCode
            /\ handler_ran' = r.ran
            /\ UNCHANGED <<delVars, pipeVars, awsVars, locVars, engVars,
                           batVars>>

AuthNext == auth_request

\* ------------------------------------------------------------------------
\* The specifications
\* ------------------------------------------------------------------------
\* the parts that follow Part III before any call
ExtInit == LocalInit /\ EngineInit /\ BatchInit /\ AuthInit

Init == DelInit /\ PipeInit /\ AwsInit /\ ExtInit

Next == DelNext

\* the deletion handler
Spec == Init /\ [][Next]_vars

\* the stores of the deletion handler while the pipeline runs
PipeStart ==
    /\ DelInitWith(TRUE, LectureIds, FALSE, {})
    /\ PipeInit /\ AwsInit /\ ExtInit

\* the processing pipeline
PipeSpec == PipeStart /\ [][PipeNext]_vars

\* SecureAWSStorage called directly, beside an idle handler and pipeline
AwsSpec == PipeStart /\ [][AwsNext]_vars

\* LocalStorage called directly
LocalSpec == PipeStart /\ [][LocalNext]_vars

\* one WhisperTranscriber called directly
EngineSpec == PipeStart /\ [][EngineNext]_vars

\* a batch with worker threads
BatchSpec == PipeStart /\ [][BatchNext]_vars

\* requests to a handler behind requires_role
AuthSpec == PipeStart /\ [][AuthNext]_vars

\* ------------------------------------------------------------------------
\* Part II.  Properties of the pipeline
\* ------------------------------------------------------------------------
\* the last process_file call has returned or raised
PipeDone == ppc = "done"

\* every b in the log comes after some a
Before(a, b, log) ==
    \A j \in 1..Len(log) : log[j] = b => \E i \in 1..(j - 1) : log[i] = a

\* name is id followed by a dot and an extension
StoredUnder(name, id) ==
    /\ Len(name) = Len(id) + 2
    /\ IsPrefix(id \o <<".">>, name)

C9_AudioRetrievable ==
    /\ Before("save_audio", "transcribe", calls)
    /\ ( /\ PipeDone
         /\ outcome = "raised"
         /\ calls # <<>>
         /\ calls[Len(calls)] = "transcribe"
         /\ args.storage_mode = "local" ) =>
           \A r \in get_audio_path(audio_dir, lecture_id) :
               /\ r # <<>>
               /\ StoredUnder(r[1], lecture_id)

\* C10: when the summarization step of a call with a non-null summarizer
\* has failed, the call still invokes save_metadata, and unless that save
\* itself fails it returns with summary None and has_summary false.
C10_SummaryFailureAbsorbed ==
    (PipeDone /\ summ_failed) =>
        /\ calls[Len(calls)] = "save_metadata"
        /\ summary_text = <<>>
        /\ outcome = "raised" => exc = "StorageError"
        /\ (outcome = "returned" /\ args.storage_mode = "local") =>
              ~metadata_dir[MetadataName(lecture_id)].has_summary

\* the call is between the creation of its transcriber (line 124) and the
\* consumption of the last segment
ActiveBeforeLastSegment ==
    \/ ppc \in {"convert", "save_audio", "transcribe"}
    \/ (ppc = "segments" /\ segments # <<>>)

\* C11: while the cancel flag of the running call's transcriber is set and
\* the last segment is not yet consumed, no step consumes a segment or
\* returns a result, and the flag stays set until the call raises.
C11_CancelObserved ==
    [][ (ActiveBeforeLastSegment /\ transcriber[1].cancel_requested) =>
          /\ segments_list' = segments_list
          /\ transcription' = <<>>
          /\ (transcriber'[1].cancel_requested \/ exc' # "none") ]_vars

\* what the storage backends hold
stores == <<audio_dir, transcript_dir, summary_dir, metadata_dir, cloud>>

\* the storage and engine calls of lines 150-201, in program order; the
\* summarize and save_summary calls depend on the summarizer
StageOrder(summarized, saved) ==
    <<"save_audio", "transcribe", "save_transcript",
      "save_transcript_with_timestamps", "save_transcript">>
      \o (IF summarized THEN <<"summarize">> ELSE <<>>)
      \o (IF saved THEN <<"save_summary">> ELSE <<>>)
      \o <<"save_metadata">>

EmptyTextYielded ==
    /\ \E i \in 1..Len(calls) : calls[i] = "transcribe"
    /\ segments = <<>>
    /\ Join(segments_list) = <<>>
    /\ exc \notin {"TranscriptionError", "FileNotFoundError", "InterruptedError"}

\* C13: a call whose transcription yields zero-length text, with or
\* without segments, does not fail: unless a storage write fails it
\* returns, the empty transcript is saved, a non-null summarizer was
\* invoked and the metadata is saved with word_count 0.
C13_EmptyTextNotAnError ==
    ( /\ PipeDone
      /\ EmptyTextYielded
      /\ exc # "StorageError"
      /\ args.storage_mode = "local" ) =>
        /\ outcome = "returned"
        /\ TranscriptName(lecture_id) \in DOMAIN transcript_dir
        /\ transcript_dir[TranscriptName(lecture_id)] = <<>>
        /\ get_summarizer(args.summarizer_type) # "none" =>
              \E i \in 1..Len(calls) : calls[i] = "summarize"
        /\ MetadataName(lecture_id) \in DOMAIN metadata_dir
        /\ metadata_dir[MetadataName(lecture_id)].word_count = 0

\* the lecture ids list_lectures can return when the limit exceeds the
\* number of lectures
Listed ==
    { q[i] : <<q, i>> \in
        { <<r, k>> \in list_lectures(MaxRuns + 1, 0) \X (1..(MaxRuns + 1)) :
            k \in DOMAIN r } }

AudioOf(id) == { n \in DOMAIN audio_dir : Stem(<<"audio/">> \o n) = id }

\* C15: storage holds at most one audio artifact per lecture id, and after
\* a call that returned, the audio, the transcripts, the summary it wrote
\* and the metadata stored for its lecture id are the ones that call
\* wrote: a re-run under the same id overwrites and never duplicates.
C15_OneArtifactPerKind ==
    /\ \A n \in DOMAIN audio_dir :
          AudioOf(Stem(<<"audio/">> \o n)) = {n}
    /\ (PipeDone /\ outcome = "returned" /\ args.storage_mode = "local") =>
          /\ AudioOf(lecture_id) = {AudioName(lecture_id, audio_path)}
          /\ transcript_dir[TranscriptName(lecture_id)] = transcription[1].text
          /\ transcript_dir[TimestampedName(lecture_id)] =
                FormatSegments(transcription[1].segments)
          /\ Truthy(summary_text) =>
                summary_dir[SummaryName(lecture_id)] = summary_text[1]
          /\ metadata_dir[MetadataName(lecture_id)].original_filename =
                Name(args.file_path)

\* C16: a call on a different input file than the call before it, neither
\* with a lecture_id supplied, obtains a different lecture id, also when
\* both start within the same second.
C16_DistinctLectureIds ==
    [][ ( /\ ppc = "done"
          /\ ppc' = "convert"
          /\ lecture_id # <<>>
          /\ args.lecture_id = <<>>
          /\ args'.lecture_id = <<>>
          /\ args'.file_path # args.file_path ) =>
            lecture_id' # lecture_id ]_vars

\* ------------------------------------------------------------------------
\* Properties of Part III
\* ------------------------------------------------------------------------
\* the last call was a save_metadata every request of which the service
\* accepted
MetadataSaveServed ==
    /\ ret.op = "save_metadata"
    /\ ret.refused = 0

\* the record of the last call's lecture_id holds the fields the caller
\* passed
HoldsCallersFields ==
    /\ ret.lecture_id \in DOMAIN metadata_table
    /\ \A i \in DOMAIN ret.metadata[1] :
         LET key == ret.metadata[1][i][1]
             item == metadata_table[ret.lecture_id]
         IN  key \in DOMAIN item /\ item[key] = ret.metadata[1][i][2]

\* C17: on SecureAWSStorage, save_metadata for a lecture_id without a record
\* creates it, and save_metadata for a lecture_id that has a record does not
\* fail: it returns True and the record then holds the fields of that call
C17_SecondSaveUpdates ==
    MetadataSaveServed =>
        /\ ret.result = "returned"
        /\ ret.value = "True"
        /\ HoldsCallersFields

\* the last call was a write one of whose requests the service refused or
\* rejected
WriteFailedInBackend ==
    /\ ret.op \in {"save_audio", "save_transcript", "save_metadata"}
    /\ (ret.refused > 0 \/ ret.error # "none")

\* C18: a write that fails in the backend is surfaced to the caller as an
\* error: the call raises at the first refused request, without sending it
\* again, and never returns a value
C18_FailuresSurfaced ==
    WriteFailedInBackend =>
        /\ ret.result = "raised"
        /\ ret.refused <= 1

\* a call has just ended: a write that returned, made with a caller identity
WroteAs(user_context) ==
    /\ ncalls' = ncalls + 1
    /\ ret'.result = "returned"
    /\ ret'.value # "False"
    /\ ret'.user_context = user_context

\* C20: on SecureAWSStorage a successful write made with a user_context
\* appends exactly one audit-trail entry, which names the user and the
\* resource written; any other call appends none
C20_AuditTrailPerWrite ==
    [][ IF \E user_context \in UserContexts \ {<<>>} : WroteAs(user_context)
        THEN /\ Len(audit_log') = Len(audit_log) + 1
             /\ SubSeq(audit_log', 1, Len(audit_log)) = audit_log
             /\ audit_log'[Len(audit_log')].audit_user =
                  ret'.user_context[1].user_id
             /\ audit_log'[Len(audit_log')].audit_result = "success"
             /\ \E object \in DOMAIN objects' :
                  object[2] = audit_log'[Len(audit_log')].audit_resource
        ELSE audit_log' = audit_log ]_vars

\* ------------------------------------------------------------------------
\* Properties of Part II that compare the two storages
\* ------------------------------------------------------------------------
\* a finished call with SecureAWSStorage that was transcribed, asked for no
\* summary and met no failing backend call: with LocalStorage such a call
\* returns
RemoteRunUnhindered ==
    /\ PipeDone
    /\ nruns > 0
    /\ args.storage_mode = "aws"
    /\ args.summarizer_type = "none"
    /\ transcription # <<>>
    /\ exc # "StorageError"

\* C19: SecureAWSStorage offers the operations of LocalStorage, so a call
\* that completes with LocalStorage also runs every stage through
\* save_metadata with SecureAWSStorage and returns
C19_RemoteRunsEveryStage ==
    RemoteRunUnhindered =>
        /\ outcome = "returned"
        /\ calls = StageOrder(FALSE, FALSE)

\* ------------------------------------------------------------------------
\* Properties of Part IV
\* ------------------------------------------------------------------------
\* the step is a call of save_summary(id, None)
SavesNoSummary ==
    /\ nlocal' = nlocal + 1
    /\ lret'.op = "save_summary"
    /\ lret'.arg = <<>>

Recorded == { id \in LocalIds : get_metadata(metadata_dir, id) # <<>> }

\* when the record of a lecture was written
WrittenAt(id) == getmtime(metadata_dir, MetadataName(id))

C24_ModelLoadedOnce ==
    /\ loads <= 1
    /\ ntranscribe = 0 => loads = 0
    /\ engine # <<>> => (engine[1].model_loaded <=> loads = 1)
    /\ tpc = "segments" => loads = 1

\* the second call on an instance has returned a result
C24_Witness ==
    /\ ntranscribe = 2
    /\ tpc = "idle"
    /\ t_result # <<>>
    /\ loads = 1

\* the state of the engine in the terms of the state machine
EngineState ==
    CASE tpc = "load_model" -> "ModelLoading"
      [] tpc = "segments" -> "Transcribing"
      [] tpc = "idle" /\ t_error = "InterruptedError" -> "Cancelled"
      [] tpc = "idle" /\ t_error \notin {"none", "InterruptedError"} -> "Failed"
      [] tpc = "idle" /\ t_error = "none" /\ t_result # <<>> -> "Completed"
      [] OTHER -> "Idle"

AtRest == {"Idle", "Completed", "Cancelled", "Failed"}

\* C26: a transcribe call goes from rest to ModelLoading, Transcribing and
\* one of Completed, Cancelled, Failed; only Completed carries a result;
\* Cancelled needs a cancellation requested during the call; a missing
\* audio file fails the call before _load_model
C26_EngineStateMachine ==
    [][ /\ EngineState' # EngineState =>
             \/ /\ EngineState \in AtRest
                /\ ntranscribe' = ntranscribe + 1
                /\ EngineState' \in {"ModelLoading", "Failed"}
                /\ EngineState' = "ModelLoading" <=> t_audio_path' \in files
             \/ /\ EngineState = "ModelLoading"
                /\ EngineState' \in {"Transcribing", "Failed"}
             \/ /\ EngineState = "Transcribing"
                /\ EngineState' \in {"Completed", "Cancelled", "Failed"}
        /\ EngineState' = "Completed" <=> t_result' # <<>>
        /\ (EngineState' = "Cancelled" /\ EngineState # "Cancelled")
             => cancel_during'
        /\ (ntranscribe' = ntranscribe + 1 /\ t_audio_path' \notin files)
             => /\ EngineState' = "Failed"
                /\ loads' = loads ]_vars

\* the second call of an instance was cancelled
C26_Witness ==
    /\ ntranscribe = 2
    /\ EngineState = "Cancelled"
    /\ cancel_during

\* ------------------------------------------------------------------------
\* Properties of Part VI
\* ------------------------------------------------------------------------
\* C25: each worker's run uses only the engine it constructed, so a
\* cancellation or state change aimed at one run never reaches another run
C25_WorkersShareNoEngine ==
    \A t \in Tasks : engine_used[t] \in {0, t}

\* ------------------------------------------------------------------------
\* Properties of Part VII
\* ------------------------------------------------------------------------
\* the last request carried a token that validate_token accepts
Authenticated == extract_token(auth_event) /\ validate_token(auth_event)

\* C27: the handler body runs only for a request whose validated token
\* carries an allowed role; without a valid token the answer is 401, and
\* with a valid token of another role the body does not run and the answer
\* is 403
C27_HandlerOnlyForAllowedRoles ==
    nauth > 0 =>
        /\ handler_ran => (Authenticated /\ auth_event.role \in allowed_roles)
        /\ ~Authenticated => auth_result = 401
        /\ (Authenticated /\ auth_event.role \notin allowed_roles)
             => auth_result = 403

\* C28: a deletion request removes nothing of a lecture whose metadata
\* record is owned by another subject (or lies in another tenant than the
\* one the request names): no step changes an audio, transcript or summary
\* object or version of such a lecture, or deletes its metadata record
C28_OnlySubjectsData ==
    [][ \A id \in LectureIds :
          ~MatchesRequest(OwnerOf(id), req.user_id, req.school_id) =>
             /\ \A bk \in ArtifactKeys(id) :
                  s3'[bk[1]][bk[2]] = s3[bk[1]][bk[2]]
             /\ id \in DOMAIN metadata => id \in DOMAIN metadata' ]_vars

\* C29: after a successful pipeline run the stored metadata of its lecture
\* has has_summary = true if and only if get_summary returns a summary for
\* that lecture (stated for the first run, when every run so far was
\* successful)
C29_HasSummaryIffSummaryStored ==
    (ppc = "done" /\ outcome = "returned" /\ nruns = 1
       /\ args.storage_mode = "local") =>
        LET md == get_metadata(metadata_dir, lecture_id)
        IN  /\ md # <<>>
            /\ md[1].has_summary <=> (get_summary(summary_dir, lecture_id) # <<>>)

\* C30: when the deletion handler has returned, with any status code, for
\* a request that created an audit entry, that entry is no longer
\* in_progress: it carries a final status
C30_AuditFinalizedOnReturn ==
    (pc = "idle" /\ nreq > 0 /\ audit_id \in DOMAIN audit) =>
        audit[audit_id].status \in FinalStatuses
====
